---------------------------- MODULE Spec2Model ----------------------------
(***************************************************************************)
(* Command execution and state synchronisation engine of wsl-dashboard:    *)
(*   - WslCommandExecutor::execute_command            (src/wsl/executor.rs)*)
(*   - WslCommandExecutor::execute_command_streaming  (src/wsl/executor.rs)*)
(*   - WslDashboard lifecycle verbs              (src/wsl/dashboard/ops.rs)*)
(* Texts are sequences of characters, byte streams are sequences of bytes. *)
(***************************************************************************)
EXTENDS Integers, Sequences, FiniteSets, TLC

VARIABLES
    \* ---- execute_command (single shot) ----
    e_pc,               \* "call" | "returned"
    args,               \* the argument vector (sequence of texts)
    proc,               \* what the external process does: [fate, stdout, stderr, secs]
    is_write_op,        \* executor.rs:33
    timeout_duration,   \* executor.rs:102, seconds
    e_result,           \* the WslCommandResult returned
    e_elapsed,          \* seconds from the call to its return
    proc_running,       \* the external process is running
    \* ---- execute_command_streaming ----
    s_pc,               \* "spawn" | "loop" | "after_loop" | "returned"
    child,              \* the child process: [spawn_ok, exited, out_rest, err_rest]
    out_pipe,           \* bytes written to the child's stdout and not read yet
    err_pipe,           \* the same for stderr
    stdout_done,        \* executor.rs:167
    stderr_done,        \* executor.rs:168
    exit_status,        \* executor.rs:170: None or Some(status)
    full_output,        \* executor.rs:160
    out_decoder,        \* executor.rs:164: the bytes the decoder buffers
    err_decoder,        \* executor.rs:165
    cb_log,             \* the calls of callback so far, in order: [ch, text]
    reads,              \* history: the reads that returned Ok so far, in order:
                        \* [ch, bytes], bytes empty for Ok(0)
    status,             \* executor.rs:217: None until the status is known
    s_result,           \* the WslCommandResult returned
    \* ---- WslDashboard ----
    caller,             \* per caller: where it is in the verb it called
    manual_operations,  \* the busy counter
    heavy_op_lock,      \* the caller holding the lock, 0 when free
    tasks,              \* the detached tasks (tokio::spawn) not finished yet
    bg,                 \* the background tasks of lifecycle.rs not finished yet: the
                        \* keep-alive (spawn_blocking) and the launcher removal (spawn)
    net,                \* history: per caller, increments minus decrements on its behalf
    \* ---- spawn_state_listener ----
    l_pc,               \* where the listener's loop is: "lock" | "notified" | "woken" |
                        \* "sleep" | "refresh"
    permit,             \* state_changed: a wake-up is stored for the next notified()
    last_refresh,       \* tasks.rs:21, 41: the milliseconds since that instant
    l_timer,            \* tasks.rs:36: the milliseconds of sleep left
    notifications,      \* history: the notify_one calls so far
    wakeups,            \* history: the returns of notified().await so far
    invocations,        \* history: the calls of refresh_distros_ui so far
    missed,             \* history: the notify_one calls made since the last wake-up
                        \* while the listener was not waiting in notified()
    since_completed,    \* history: the milliseconds since refresh_distros_ui last
                        \* returned (since the listener started, before that)
    unserved,           \* history: a notify_one call was made and no call of
                        \* refresh_distros_ui has started since
    \* ---- refresh_distros_ui ----
    IS_REFRESHING,      \* data.rs:55
    IS_UI_UPDATING,     \* data.rs:180
    LAST_DISTROS,       \* data.rs:191: None or Some(model)
    distros,            \* the cached list of the dashboard
    dynamic_mapping,    \* icon_mapper: the environment has an icon key
    probed,             \* icon_mapper: the environment is marked as probed
    ui_call,            \* per caller of refresh_distros_ui: [pc, model]
    event_loop,         \* the closure handed to invoke_from_event_loop and not run
                        \* yet: None or Some(model)
    shown,              \* the model last given to set_distros: None or Some(model)
    icon_tasks,         \* the background icon checks not finished yet
    last_run,           \* history: the model of the closure run last and whether it
                        \* called set_distros: None or Some([model, set])
    direct_calls        \* history: the calls of refresh_distros_ui made by tasks
                        \* other than the listener

evars == <<e_pc, args, proc, is_write_op, timeout_duration, e_result, e_elapsed,
           proc_running>>

svars == <<s_pc, child, out_pipe, err_pipe, stdout_done, stderr_done, exit_status,
           full_output, out_decoder, err_decoder, cb_log, reads, status, s_result>>

cvars == <<caller, manual_operations, heavy_op_lock, tasks, bg, net>>

lvars == <<l_pc, permit, last_refresh, l_timer, notifications, wakeups, invocations,
           missed, since_completed, unserved>>

uvars == <<IS_REFRESHING, IS_UI_UPDATING, LAST_DISTROS, distros, dynamic_mapping, probed,
           ui_call, event_loop, shown, icon_tasks, direct_calls, last_run>>

\* ---- the persisted configuration ----
VARIABLES
    instances_toml,     \* the environments that have an entry in instances.toml
    autostart_vbs       \* wsl-dashboard.vbs: None (no file) or Some(lines)

pvars == <<instances_toml, autostart_vbs>>

\* ---- /etc/wsl.conf of an environment, and set_systemd_status ----
VARIABLES
    wsl_conf,           \* the lines of the file
    w_call              \* the call of set_systemd_status: [pc, enabled, conf]

wvars == <<wsl_conf, w_call>>

vars == <<evars, svars, cvars, lvars, uvars, pvars, wvars>>

\* ------------------------------------------------------------------ texts

None == <<>>
Some(x) == <<x>>

RECURSIVE Concat(_)
Concat(ss) == IF ss = <<>> THEN <<>> ELSE Head(ss) \o Concat(Tail(ss))

UpperLetters == <<"A","B","C","D","E","F","G","H","I","J","K","L","M",
                  "N","O","P","Q","R","S","T","U","V","W","X","Y","Z">>
LowerLetters == <<"a","b","c","d","e","f","g","h","i","j","k","l","m",
                  "n","o","p","q","r","s","t","u","v","w","x","y","z">>

\* char::to_lowercase on the characters the model uses
LowerChar(c) ==
    IF \E i \in 1..Len(UpperLetters) : UpperLetters[i] = c
    THEN LowerLetters[CHOOSE i \in 1..Len(UpperLetters) : UpperLetters[i] = c]
    ELSE c

UpperChar(c) ==
    IF \E i \in 1..Len(LowerLetters) : LowerLetters[i] = c
    THEN UpperLetters[CHOOSE i \in 1..Len(LowerLetters) : LowerLetters[i] = c]
    ELSE c

\* str::to_lowercase
to_lowercase(s) == [i \in 1..Len(s) |-> LowerChar(s[i])]

to_uppercase(s) == [i \in 1..Len(s) |-> UpperChar(s[i])]

\* char::is_whitespace on the characters the model uses
Whitespace == {" ", "\n", "\t", "\r"}

\* str::trim: leading and trailing whitespace removed
RECURSIVE trim_start(_)
trim_start(s) ==
    IF s # <<>> /\ Head(s) \in Whitespace THEN trim_start(Tail(s)) ELSE s

RECURSIVE trim_end(_)
trim_end(s) ==
    IF s # <<>> /\ s[Len(s)] \in Whitespace
    THEN trim_end(SubSeq(s, 1, Len(s) - 1)) ELSE s

trim(s) == trim_end(trim_start(s))

is_empty(s) == Len(s) = 0

\* WslCommandResult::success(output, data) and ::error(output, error)
WslCommandResult_success(output) ==
    [success |-> TRUE, output |-> output, error |-> None]

WslCommandResult_error(output, error) ==
    [success |-> FALSE, output |-> output, error |-> Some(error)]

NoResult == [success |-> FALSE, output |-> <<>>, error |-> Some(<<"(no result yet)">>)]

\* ------------------------------------------------- execute_command: classification

\* executor.rs:27-31, in the order of the array
write_ops == <<
    <<"-","-","i","m","p","o","r","t">>,
    <<"-","-","e","x","p","o","r","t">>,
    <<"-","-","u","n","r","e","g","i","s","t","e","r">>,
    <<"-","-","i","n","s","t","a","l","l">>,
    <<"-","-","s","e","t","-","v","e","r","s","i","o","n">>,
    <<"-","-","s","e","t","-","d","e","f","a","u","l","t","-","v","e","r","s","i","o","n">>,
    <<"-","-","s","e","t","-","d","e","f","a","u","l","t">>,
    <<"-","s">>,
    <<"-","-","s","h","u","t","d","o","w","n">>,
    <<"-","-","t","e","r","m","i","n","a","t","e">>,
    <<"-","t">>,
    <<"-","-","m","o","u","n","t">>,
    <<"-","-","u","n","m","o","u","n","t">>,
    <<"-","-","u","p","d","a","t","e">>
>>

\* slice::contains
contains(list, x) == \E i \in 1..Len(list) : list[i] = x

\* a plausible slip: the argument is compared as given, without to_lowercase
IsWriteOpCaseSensitive(a) == \E i \in 1..Len(a) : contains(write_ops, a[i])

\* executor.rs:33
IsWriteOp(a) == \E i \in 1..Len(a) : contains(write_ops, to_lowercase(a[i]))

WriteTimeoutSecs == 600
ReadTimeoutSecs == 15

\* executor.rs:102-106
TimeoutFor(w) == IF w THEN WriteTimeoutSecs ELSE ReadTimeoutSecs

\* ------------------------------------------------- execute_command: the call

\* format!("wsl {}", args_owned.join(" ")), executor.rs:24
command_str(a) == <<"wsl">> \o Concat([i \in 1..Len(a) |-> <<" ">> \o a[i]])

\* a plausible slip: the streams are compared without trim()
FinalErrorUntrimmed(stdout, stderr) ==
    IF is_empty(stderr) /\ ~is_empty(stdout) THEN stdout ELSE stderr

\* executor.rs:86-90
FinalError(stdout, stderr) ==
    IF is_empty(trim(stderr)) /\ ~is_empty(trim(stdout)) THEN stdout ELSE stderr

\* the closure run by spawn_blocking, executor.rs:62-99 (its panic is the JoinError
\* of executor.rs:110)
BlockingTask(p) ==
    CASE p.fate = "exit0" -> WslCommandResult_success(p.stdout)
      [] p.fate = "exitN" ->
            WslCommandResult_error(p.stdout, FinalError(p.stdout, p.stderr))
      [] p.fate = "spawn_err" ->
            WslCommandResult_error(<<>>, <<"Failed to execute command: ", "io error">>)
      [] OTHER -> NoResult

\* a plausible slip: the blocking task is awaited without a timeout
TimedOutNever(p, secs) == FALSE

\* executor.rs:108, 116: the timeout elapses before the blocking task has ended
\* (it never ends when the process hangs)
TimedOut(p, secs) == p.fate = "hang" \/ p.secs > secs

\* a plausible slip: the JoinError of a panicked task is not handled
AwaitWithTimeoutNoJoinError(p, a, secs) ==
    CASE TimedOut(p, secs) ->
            WslCommandResult_error(<<>>,
                <<"WSL command timed out after ", ToString(secs), "s: ">> \o command_str(a))
      [] OTHER -> BlockingTask(p)

\* executor.rs:108-121
AwaitWithTimeout(p, a, secs) ==
    CASE TimedOut(p, secs) ->
            WslCommandResult_error(<<>>,
                <<"WSL command timed out after ", ToString(secs), "s: ">> \o command_str(a))
      [] p.fate = "panic" ->
            WslCommandResult_error(<<>>, <<"Command execution panicked: ", "join error">>)
      [] OTHER -> BlockingTask(p)

\* the seconds after which tokio::time::timeout returns, executor.rs:108
ReturnsAfter(p, secs) == IF TimedOut(p, secs) THEN secs ELSE p.secs

\* executor.rs:43-62, 116-120: nothing ends the process the blocking task waits
\* for in command.output() when the timeout elapses
StillRunning(p, secs) == TimedOut(p, secs) /\ p.fate \in {"exit0", "exitN", "hang"}

\* WslCommandExecutor::execute_command, executor.rs:21-122
ExecuteCommand ==
    /\ e_pc = "call"
    /\ is_write_op' = IsWriteOp(args)
    /\ timeout_duration' = TimeoutFor(is_write_op')
    /\ e_result' = AwaitWithTimeout(proc, args, timeout_duration')
    /\ e_elapsed' = ReturnsAfter(proc, timeout_duration')
    /\ proc_running' = StillRunning(proc, timeout_duration')
    /\ e_pc' = "returned"
    /\ UNCHANGED <<args, proc, svars, cvars, lvars, uvars, pvars, wvars>>

\* the process a timed-out call left behind exits at last, unless it hangs
ProcessExitsLate ==
    /\ e_pc = "returned" /\ proc_running /\ proc.fate # "hang"
    /\ proc_running' = FALSE
    /\ UNCHANGED <<e_pc, args, proc, is_write_op, timeout_duration, e_result, e_elapsed,
                   svars, cvars, lvars, uvars, pvars, wvars>>

\* ---- the inputs of execute_command

MaxArgs == 2
MaxText == 2

RECURSIVE SeqsUpTo(_, _)
SeqsUpTo(S, n) ==
    IF n = 0 THEN {<<>>}
    ELSE LET shorter == SeqsUpTo(S, n - 1)
         IN  shorter \cup {Append(s, x) : s \in shorter, x \in S}

WriteTokens == {write_ops[i] : i \in 1..Len(write_ops)}

\* arguments that are no write token and contain none, those of the commands the
\* program issues (lifecycle.rs:13, 243; info.rs) among them
NeutralArgs == {
    <<"-","d">>, <<"-","l">>, <<"-","v">>, <<"-","-">>, <<"s","h">>,
    <<"-","-","m","a","n","a","g","e">>, <<"-","-","m","o","v","e">>,
    <<"U","b","u","n","t","u">> }

\* each write token as it is, in upper case, with a capital, and inside a longer argument
ArgPool ==
    NeutralArgs
    \cup WriteTokens
    \cup {to_uppercase(w) : w \in WriteTokens}
    \cup {<<"x">> \o w : w \in WriteTokens}
    \cup {w \o <<"x">> : w \in WriteTokens}

ArgVectors == SeqsUpTo(ArgPool, MaxArgs)

TextChars == {"x", " ", "\n"}
Texts == SeqsUpTo(TextChars, MaxText)
Fates == {"exit0", "exitN", "spawn_err", "panic", "hang"}

ExecArgSamples == {
    << <<"-","l">>, <<"-","v">> >>,
    << <<"-","-","t","e","r","m","i","n","a","t","e">>, <<"U","b","u","n","t","u">> >> }

InitExecVars ==
    /\ e_pc = "call"
    /\ is_write_op = FALSE
    /\ timeout_duration = 0
    /\ e_result = NoResult
    /\ e_elapsed = 0
    /\ proc_running = FALSE

\* every argument vector, one process behaviour
InitClassify ==
    /\ InitExecVars
    /\ args \in ArgVectors
    /\ proc = [fate |-> "exit0", stdout |-> <<"x">>, stderr |-> <<>>, secs |-> 0]

\* two argument vectors, every process behaviour
InitExec ==
    /\ InitExecVars
    /\ args \in ExecArgSamples
    /\ proc \in [fate : Fates, stdout : Texts, stderr : Texts, secs : {0}]

\* the times a process takes: none, and around each of the two timeouts
Durations == {0} \cup {t + d : t \in {ReadTimeoutSecs, WriteTimeoutSecs}, d \in {-1, 0, 1}}

\* two argument vectors, every fate and duration of the process
InitTimeout ==
    /\ InitExecVars
    /\ args \in ExecArgSamples
    /\ proc \in [fate : Fates, stdout : Texts, stderr : {<<>>}, secs : Durations]


\* ------------------------------------------------- WslOutputDecoder

\* Bytes of UTF-8: an ASCII byte, the lead byte of a two-byte character, a
\* continuation byte. A character is the tuple of its bytes; a text is a sequence
\* of characters, and encoding it concatenates them.
AsciiBytes == {"61"}
Lead2Bytes == {"C3"}
ContBytes == {"A9"}
Bytes == AsciiBytes \cup Lead2Bytes \cup ContBytes

REPLACEMENT_CHARACTER == <<"EF", "BF", "BD">>

\* the length of the character a byte starts, 0 for a byte that starts none
CharLen(b) ==
    CASE b \in AsciiBytes -> 1
      [] b \in Lead2Bytes -> 2
      [] OTHER -> 0

AllCont(bs) == \A i \in 1..Len(bs) : bs[i] \in ContBytes

\* Decoding of `data`: complete characters are emitted, a byte that cannot start or
\* continue a character becomes U+FFFD, and an incomplete character at the very end
\* is kept back: [text, rest].
RECURSIVE Utf8Parse(_)
Utf8Parse(data) ==
    IF data = <<>> THEN [text |-> <<>>, rest |-> <<>>]
    ELSE LET n == CharLen(Head(data))
         IN  IF n > 0 /\ Len(data) >= n /\ AllCont(SubSeq(data, 2, n))
             THEN LET r == Utf8Parse(SubSeq(data, n + 1, Len(data)))
                  IN  [text |-> <<SubSeq(data, 1, n)>> \o r.text, rest |-> r.rest]
             ELSE IF n > 0 /\ Len(data) < n /\ AllCont(Tail(data))
             THEN [text |-> <<>>, rest |-> data]
             ELSE LET r == Utf8Parse(Tail(data))
                  IN  [text |-> <<REPLACEMENT_CHARACTER>> \o r.text, rest |-> r.rest]

\* WslOutputDecoder::decode(bytes) on a decoder that buffers `buffer`:
\* [text |-> the text returned, rest |-> the bytes buffered afterwards]
decode(buffer, bytes) == Utf8Parse(buffer \o bytes)

\* the lossy decoding of a buffered tail (String::from_utf8_lossy)
from_utf8_lossy(bs) ==
    LET r == Utf8Parse(bs)
    IN  r.text \o (IF r.rest = <<>> THEN <<>> ELSE <<REPLACEMENT_CHARACTER>>)

\* ------------------------------------------------- execute_command_streaming

\* what child.wait() returns once the child has exited: its exit status, zero or
\* not, or an error
Statuses == {"0", "1", "wait_err"}

\* a plausible slip: the loop goes on until both channels are done
LoopCondChannelsOnly == ~stdout_done \/ ~stderr_done

\* executor.rs:172
LoopCond == (~stdout_done \/ ~stderr_done) /\ exit_status = None

InLoop == s_pc = "loop" /\ LoopCond

\* the write end of the pipe of channel ch is closed once the child has exited or
\* has closed its handle, unless a descendant of the child holds it open
PipeClosed(ch) == ch \notin child.holds /\ (child.exited \/ ch \in child.closed)

\* a plausible slip: a new decoder for every chunk
DecodeChunkFresh(decoder, chunk) == decode(<<>>, chunk)

\* executor.rs:164-165, 181, 199: the channel's one decoder decodes the chunk
DecodeChunk(decoder, chunk) == decode(decoder, chunk)

\* a plausible slip: every fragment is passed on, empty or not
EmitAlways(ch, text) ==
    /\ full_output' = full_output \o text
    /\ cb_log' = Append(cb_log, [ch |-> ch, text |-> text])

\* executor.rs:182-185 and 200-203
Emit(ch, text) ==
    IF ~is_empty(text)
    THEN /\ full_output' = full_output \o text
         /\ cb_log' = Append(cb_log, [ch |-> ch, text |-> text])
    ELSE UNCHANGED <<full_output, cb_log>>

\* executor.rs:148-155: cmd.spawn() returns Ok or Err
Spawn ==
    /\ s_pc = "spawn"
    /\ \E ok \in BOOLEAN :
         /\ child' = [child EXCEPT !.spawn_ok = ok]
         /\ IF ok
            THEN /\ s_pc' = "loop"
                 /\ s_result' = s_result
            ELSE /\ s_pc' = "returned"
                 /\ s_result' = WslCommandResult_error(<<>>,
                                    <<"Failed to spawn wsl: ", "io error">>)
    /\ UNCHANGED <<evars, cvars, lvars, uvars, pvars, wvars, out_pipe, err_pipe, stdout_done, stderr_done, exit_status,
                   full_output, out_decoder, err_decoder, cb_log, reads, status>>

\* the child writes the next byte of its stdout
ChildWriteStdout ==
    /\ child.spawn_ok /\ ~child.exited /\ child.out_rest # <<>>
    /\ "stdout" \notin child.closed
    /\ out_pipe' = Append(out_pipe, Head(child.out_rest))
    /\ child' = [child EXCEPT !.out_rest = Tail(@)]
    /\ UNCHANGED <<evars, cvars, lvars, uvars, pvars, wvars, s_pc, err_pipe, stdout_done, stderr_done, exit_status, full_output,
                   out_decoder, err_decoder, cb_log, reads, s_result, status>>

\* the child writes the next byte of its stderr
ChildWriteStderr ==
    /\ child.spawn_ok /\ ~child.exited /\ child.err_rest # <<>>
    /\ "stderr" \notin child.closed
    /\ err_pipe' = Append(err_pipe, Head(child.err_rest))
    /\ child' = [child EXCEPT !.err_rest = Tail(@)]
    /\ UNCHANGED <<evars, cvars, lvars, uvars, pvars, wvars, s_pc, out_pipe, stdout_done, stderr_done, exit_status, full_output,
                   out_decoder, err_decoder, cb_log, reads, s_result, status>>

\* the child closes its handle of channel ch, having written all it writes to it
ChildCloses(ch) ==
    /\ child.spawn_ok /\ ~child.exited
    /\ ch \notin child.closed
    /\ (IF ch = "stdout" THEN child.out_rest ELSE child.err_rest) = <<>>
    /\ child' = [child EXCEPT !.closed = @ \cup {ch}]
    /\ UNCHANGED <<evars, cvars, lvars, uvars, pvars, wvars, s_pc, out_pipe, err_pipe, stdout_done, stderr_done, exit_status,
                   full_output, out_decoder, err_decoder, cb_log, reads, s_result, status>>

\* the child exits, having written all its output
ChildExit ==
    /\ child.spawn_ok /\ ~child.exited
    /\ child.out_rest = <<>> /\ child.err_rest = <<>>
    /\ child' = [child EXCEPT !.exited = TRUE]
    /\ UNCHANGED <<evars, cvars, lvars, uvars, pvars, wvars, s_pc, out_pipe, err_pipe, stdout_done, stderr_done, exit_status,
                   full_output, out_decoder, err_decoder, cb_log, reads, s_result, status>>

\* executor.rs:174, 180-186: stdout.read returns Ok(n), n > 0
StdoutRead ==
    /\ InLoop /\ ~stdout_done /\ out_pipe # <<>>
    /\ \E n \in 1..Len(out_pipe) :
         LET d == DecodeChunk(out_decoder, SubSeq(out_pipe, 1, n))
         IN  /\ out_decoder' = d.rest
             /\ Emit("stdout", d.text)
             /\ reads' = Append(reads, [ch |-> "stdout", bytes |-> SubSeq(out_pipe, 1, n)])
             /\ out_pipe' = SubSeq(out_pipe, n + 1, Len(out_pipe))
    /\ UNCHANGED <<evars, cvars, lvars, uvars, pvars, wvars, s_pc, child, err_pipe, stdout_done, stderr_done, exit_status,
                   err_decoder, s_result, status>>

\* executor.rs:176-179: stdout.read returns Ok(0)
StdoutEof ==
    /\ InLoop /\ ~stdout_done /\ out_pipe = <<>> /\ PipeClosed("stdout")
    /\ stdout_done' = TRUE
    /\ reads' = Append(reads, [ch |-> "stdout", bytes |-> <<>>])
    /\ UNCHANGED <<evars, cvars, lvars, uvars, pvars, wvars, s_pc, child, out_pipe, err_pipe, stderr_done, exit_status,
                   full_output, out_decoder, err_decoder, cb_log, s_result, status>>

\* executor.rs:187-190: stdout.read returns Err
StdoutReadError ==
    /\ InLoop /\ ~stdout_done
    /\ stdout_done' = TRUE
    /\ UNCHANGED <<evars, cvars, lvars, uvars, pvars, wvars, s_pc, child, out_pipe, err_pipe, stderr_done, exit_status, full_output,
                   out_decoder, err_decoder, cb_log, reads, s_result, status>>

\* executor.rs:193, 198-204: stderr.read returns Ok(n), n > 0
StderrRead ==
    /\ InLoop /\ ~stderr_done /\ err_pipe # <<>>
    /\ \E n \in 1..Len(err_pipe) :
         LET d == DecodeChunk(err_decoder, SubSeq(err_pipe, 1, n))
         IN  /\ err_decoder' = d.rest
             /\ Emit("stderr", d.text)
             /\ reads' = Append(reads, [ch |-> "stderr", bytes |-> SubSeq(err_pipe, 1, n)])
             /\ err_pipe' = SubSeq(err_pipe, n + 1, Len(err_pipe))
    /\ UNCHANGED <<evars, cvars, lvars, uvars, pvars, wvars, s_pc, child, out_pipe, stdout_done, stderr_done, exit_status,
                   out_decoder, s_result, status>>

\* executor.rs:195-197: stderr.read returns Ok(0)
StderrEof ==
    /\ InLoop /\ ~stderr_done /\ err_pipe = <<>> /\ PipeClosed("stderr")
    /\ stderr_done' = TRUE
    /\ reads' = Append(reads, [ch |-> "stderr", bytes |-> <<>>])
    /\ UNCHANGED <<evars, cvars, lvars, uvars, pvars, wvars, s_pc, child, out_pipe, err_pipe, stdout_done, exit_status,
                   full_output, out_decoder, err_decoder, cb_log, s_result, status>>

\* executor.rs:205-208: stderr.read returns Err
StderrReadError ==
    /\ InLoop /\ ~stderr_done
    /\ stderr_done' = TRUE
    /\ UNCHANGED <<evars, cvars, lvars, uvars, pvars, wvars, s_pc, child, out_pipe, err_pipe, stdout_done, exit_status, full_output,
                   out_decoder, err_decoder, cb_log, reads, s_result, status>>

\* executor.rs:211-213: child.wait() completes inside select!
ChildWaitInLoop ==
    /\ InLoop /\ child.exited
    /\ \E st \in Statuses : exit_status' = Some(st)
    /\ UNCHANGED <<evars, cvars, lvars, uvars, pvars, wvars, s_pc, child, out_pipe, err_pipe, stdout_done, stderr_done, full_output,
                   out_decoder, err_decoder, cb_log, reads, s_result, status>>

\* executor.rs:172: the loop condition is false
LoopExit ==
    /\ s_pc = "loop" /\ ~LoopCond
    /\ s_pc' = "after_loop"
    /\ UNCHANGED <<evars, cvars, lvars, uvars, pvars, wvars, child, out_pipe, err_pipe, stdout_done, stderr_done, exit_status,
                   full_output, out_decoder, err_decoder, cb_log, reads, s_result, status>>

\* a plausible slip: the failure results are built without the accumulated text
ClassifyDropsOutput(st, output) ==
    CASE st = "0" -> WslCommandResult_success(output)
      [] st = "wait_err" -> WslCommandResult_error(<<>>, <<"wait error">>)
      [] OTHER ->
            WslCommandResult_error(<<>>, <<"Process exited with error: ", st>>)

\* executor.rs:221-236
Classify(st, output) ==
    CASE st = "0" -> WslCommandResult_success(output)
      [] st = "wait_err" -> WslCommandResult_error(output, <<"wait error">>)
      [] OTHER ->
            WslCommandResult_error(output, <<"Process exited with error: ", st>>)

\* executor.rs:217-236: the status seen in the loop, or child.wait().await
Finish ==
    /\ s_pc = "after_loop"
    /\ exit_status # None \/ child.exited
    /\ \E st \in Statuses :
         /\ status' = (IF exit_status # None THEN exit_status ELSE Some(st))
         /\ s_result' = Classify(status'[1], full_output)
    /\ s_pc' = "returned"
    /\ UNCHANGED <<evars, cvars, lvars, uvars, pvars, wvars, child, out_pipe, err_pipe, stdout_done, stderr_done, exit_status,
                   full_output, out_decoder, err_decoder, cb_log, reads>>

\* ---- the inputs of execute_command_streaming

MaxBytes == 3

ByteSeqs == SeqsUpTo(Bytes, MaxBytes)

InitStream ==
    /\ s_pc = "spawn"
    /\ \E o \in ByteSeqs, e \in ByteSeqs :
         /\ Len(o) + Len(e) <= MaxBytes
         /\ child = [spawn_ok |-> FALSE, exited |-> FALSE,
                     out_rest |-> o, err_rest |-> e, holds |-> {}, closed |-> {}]
    /\ out_pipe = <<>> /\ err_pipe = <<>>
    /\ stdout_done = FALSE /\ stderr_done = FALSE
    /\ exit_status = None
    /\ full_output = <<>>
    /\ out_decoder = <<>> /\ err_decoder = <<>>
    /\ cb_log = <<>> /\ reads = <<>>
    /\ status = None
    /\ s_result = NoResult

\* a child that writes at most one byte to each channel and whose descendants
\* hold any of the pipes open
InitStreamExit ==
    /\ s_pc = "spawn"
    /\ \E o \in SeqsUpTo(Bytes, 1), e \in SeqsUpTo(Bytes, 1), h \in SUBSET {"stdout", "stderr"} :
         child = [spawn_ok |-> FALSE, exited |-> FALSE,
                  out_rest |-> o, err_rest |-> e, holds |-> h, closed |-> {}]
    /\ out_pipe = <<>> /\ err_pipe = <<>>
    /\ stdout_done = FALSE /\ stderr_done = FALSE
    /\ exit_status = None
    /\ full_output = <<>>
    /\ out_decoder = <<>> /\ err_decoder = <<>>
    /\ cb_log = <<>> /\ reads = <<>>
    /\ status = None
    /\ s_result = NoResult

\* no streaming invocation
IdleStream ==
    /\ s_pc = "returned"
    /\ child = [spawn_ok |-> FALSE, exited |-> FALSE,
                out_rest |-> <<>>, err_rest |-> <<>>, holds |-> {}, closed |-> {}]
    /\ out_pipe = <<>> /\ err_pipe = <<>>
    /\ stdout_done = FALSE /\ stderr_done = FALSE
    /\ exit_status = None
    /\ full_output = <<>>
    /\ out_decoder = <<>> /\ err_decoder = <<>>
    /\ cb_log = <<>> /\ reads = <<>>
    /\ status = None
    /\ s_result = NoResult

\* no single-shot invocation
IdleExec ==
    /\ InitExecVars
    /\ args = <<>>
    /\ proc = [fate |-> "exit0", stdout |-> <<>>, stderr |-> <<>>, secs |-> 0]

NextStream ==
    \/ Spawn
    \/ ChildWriteStdout
    \/ ChildWriteStderr
    \/ ChildExit
    \/ StdoutRead
    \/ StdoutEof
    \/ StdoutReadError
    \/ StderrRead
    \/ StderrEof
    \/ StderrReadError
    \/ ChildWaitInLoop
    \/ LoopExit
    \/ Finish

\* a step of execute_command_streaming, read errors apart
StreamStep ==
    \/ Spawn
    \/ StdoutRead
    \/ StdoutEof
    \/ StderrRead
    \/ StderrEof
    \/ ChildWaitInLoop
    \/ LoopExit
    \/ Finish

NextStreamExit ==
    \/ Spawn
    \/ ChildWriteStdout
    \/ ChildWriteStderr
    \/ ChildCloses("stdout")
    \/ ChildCloses("stderr")
    \/ ChildExit
    \/ StdoutRead
    \/ StdoutEof
    \/ StdoutReadError
    \/ StderrRead
    \/ StderrEof
    \/ StderrReadError
    \/ ChildWaitInLoop
    \/ LoopExit
    \/ Finish

\* ------------------------------------------------- WslDashboard

NumCallers == 2
\* the number of calls the callers make in all
MaxCalls == 2

Callers == 1..NumCallers

\* ops.rs:55, 17 and 38, 84
RestartDelaySecs == 4
RecheckDelaySecs == 3
SettleDelaySecs == 1

HeavyVerbs == {"delete_distro", "export_distro", "import_distro", "move_distro"}
LightVerbs == {"start_distro", "stop_distro", "shutdown_wsl"}

\* the outcome of an executor call: whether it succeeded and which command or
\* function made the result
Res(ok, from) == [success |-> ok, from |-> from]
NoRes == Res(FALSE, "none")

\* history: the command cmd of caller record c is over, with outcome ok
Completed(c, cmd, ok) ==
    [c EXCEPT !.completed = Append(@, [cmd |-> cmd, success |-> ok])]

\* history: no lookup made in the verb in progress
NoLookup == [kind |-> "none"]

\* per caller: pc, the verb called and the function of ops.rs in progress, the
\* phase of restart_distro, the result in hand, pfn_to_remove (lifecycle.rs:112),
\* timer (the seconds of sleep left), and history: the commands issued and
\* completed in the verb, the result returned, the seconds since stop_distro
\* returned, the calls made, the refresh_distros calls of the function in
\* progress, the lookup made in delete_distro and whether it and both removals
\* failed
IdleCaller ==
    [pc |-> "idle", verb |-> "none", fn |-> "none", restart |-> "none",
     result |-> NoRes, issued |-> <<>>, completed |-> <<>>, ret |-> None,
     timer |-> 0, since_stop |-> 0, calls |-> 0,
     refreshes |-> 0, pfn_to_remove |-> None, lookup |-> NoLookup, all_failed |-> FALSE,
     before |-> None]

\* WslDashboard::increment_manual_operation, on behalf of caller p
increment_manual_operation(p) ==
    /\ manual_operations' = manual_operations + 1
    /\ net' = [net EXCEPT ![p] = @ + 1]

\* WslDashboard::decrement_manual_operation, on behalf of caller p
decrement_manual_operation(p) ==
    /\ manual_operations' = manual_operations - 1
    /\ net' = [net EXCEPT ![p] = @ - 1]

\* a plausible slip: the sleep between stop and start is the re-check's delay
RestartSleepShort == RecheckDelaySecs

\* ops.rs:55
RestartSleep == RestartDelaySecs

\* restart_distro, ops.rs:51-56: what the caller does when the verb it awaits
\* returns r; a verb called directly returns r to the caller
Returned(c, r) ==
    IF c.restart = "stop" /\ r.success
    THEN [c EXCEPT !.pc = "sleep", !.fn = "none", !.restart = "sleep",
                   !.timer = RestartSleep, !.since_stop = 0]
    ELSE [c EXCEPT !.pc = "idle", !.fn = "none", !.restart = "none", !.ret = Some(r),
                   !.pfn_to_remove = None, !.lookup = NoLookup, !.all_failed = FALSE,
                   !.before = None]

RECURSIVE CallsUpTo(_)
CallsUpTo(n) == IF n = 0 THEN 0 ELSE caller[n].calls + CallsUpTo(n - 1)

\* the verbs of ops.rs that verb f runs: restart_distro runs stop_distro and
\* start_distro, ops.rs:51-56
VerbsRun(f) == IF f = "restart_distro" THEN 2 ELSE 1

\* caller p calls verb f of ops.rs (restart_distro, ops.rs:49-51, starts with
\* stop_distro); the callers are interchangeable and are numbered in the order of
\* their first calls
CallVerb(p, f) ==
    /\ caller[p].pc = "idle"
    /\ IF p = 1 THEN TRUE ELSE caller[p - 1].calls > 0
    /\ CallsUpTo(NumCallers) + VerbsRun(f) <= MaxCalls
    /\ caller' = [caller EXCEPT ![p] =
            [pc |-> IF f \in HeavyVerbs THEN "lock" ELSE "call",
             verb |-> f,
             fn |-> IF f = "restart_distro" THEN "stop_distro" ELSE f,
             restart |-> IF f = "restart_distro" THEN "stop" ELSE "none",
             result |-> NoRes, issued |-> <<>>, completed |-> <<>>, ret |-> None,
             timer |-> 0,
             since_stop |-> 0, calls |-> caller[p].calls + VerbsRun(f),
             refreshes |-> 0, pfn_to_remove |-> None, lookup |-> NoLookup,
             all_failed |-> FALSE, before |-> None]]
    /\ UNCHANGED <<evars, svars, lvars, uvars, pvars, wvars, bg, manual_operations, heavy_op_lock, tasks, net>>

\* a caller calls one of the verbs of ops.rs
Call(p) == \E f \in LightVerbs \cup HeavyVerbs \cup {"restart_distro"} : CallVerb(p, f)

\* a caller calls one of the heavy verbs
CallHeavy(p) == \E f \in HeavyVerbs : CallVerb(p, f)

\* restart_distro, ops.rs:55-56: the sleep is over, start_distro is called
RestartDistroWake(p) ==
    /\ caller[p].pc = "sleep" /\ caller[p].restart = "sleep" /\ caller[p].timer = 0
    /\ caller' = [caller EXCEPT ![p].pc = "call", ![p].fn = "start_distro",
                                ![p].restart = "start", ![p].refreshes = 0]
    /\ UNCHANGED <<evars, svars, lvars, uvars, pvars, wvars, bg, manual_operations, heavy_op_lock, tasks, net>>

\* a plausible slip: the re-check is spawned without its delay
DetachedTaskNoDelay(p, delay) ==
    [owner |-> p, fn |-> caller[p].fn, call |-> caller[p].calls,
     pc |-> "sleep", timer |-> 0, age |-> 0]

\* the detached task of start_distro, stop_distro (ops.rs:16-21, 37-42) and
\* delete_distro (ops.rs:82-90), as spawned
DetachedTask(p, delay) ==
    [owner |-> p, fn |-> caller[p].fn, call |-> caller[p].calls,
     pc |-> "sleep", timer |-> delay, age |-> 0]

\* a plausible slip: the failure path returns without the decrement
LightVerbFailedNoDecrement(p, cmd) ==
    /\ caller[p].pc = "await"
    /\ caller' = [caller EXCEPT ![p] =
         Returned(Completed(caller[p], cmd, FALSE), Res(FALSE, cmd))]
    /\ UNCHANGED <<evars, svars, lvars, uvars, pvars, wvars, bg, manual_operations, heavy_op_lock, tasks, net>>

\* start_distro / stop_distro, ops.rs:22-25 and 43-46: the command failed
LightVerbFailed(p, cmd) ==
    /\ caller[p].pc = "await"
    /\ decrement_manual_operation(p)
    /\ caller' = [caller EXCEPT ![p] =
         Returned(Completed(caller[p], cmd, FALSE), Res(FALSE, cmd))]
    /\ UNCHANGED <<evars, svars, lvars, uvars, pvars, wvars, bg, heavy_op_lock, tasks>>

\* the keep-alive task of lifecycle.rs:24-47, as spawned
KeepAliveTask(p) ==
    [owner |-> p, call |-> caller[p].calls, kind |-> "keep_alive", pfn |-> <<>>,
     pc |-> "queued"]

\* a plausible slip: the keep-alive process is spawned inline and decides the result
ProbeSucceededKeepAliveChecked(p) ==
    /\ caller[p].pc = "await"
    /\ \E spawned \in BOOLEAN :
         caller' = [caller EXCEPT ![p] =
           [Completed(caller[p], "probe", TRUE) EXCEPT
              !.pc = "refresh", !.refreshes = @ + 1,
              !.result = Res(spawned, "start_distro")]]
    /\ UNCHANGED <<evars, svars, lvars, uvars, pvars, wvars, bg, manual_operations, heavy_op_lock, tasks, net>>

\* lifecycle.rs:20-49 and ops.rs:10-12: the probe succeeded; the keep-alive task
\* is handed to spawn_blocking, start_distro returns success, refresh_distros
ProbeSucceeded(p) ==
    /\ caller[p].pc = "await"
    /\ bg' = bg \cup {KeepAliveTask(p)}
    /\ caller' = [caller EXCEPT ![p] =
         [Completed(caller[p], "probe", TRUE) EXCEPT
            !.pc = "refresh", !.refreshes = @ + 1,
            !.result = Res(TRUE, "start_distro")]]
    /\ UNCHANGED <<evars, svars, lvars, uvars, pvars, wvars, manual_operations, heavy_op_lock, tasks, net>>

\* WslDashboard::start_distro, ops.rs:7-26
StartDistro(p) ==
    /\ caller[p].fn = "start_distro"
    /\ \/ \* ops.rs:8-9 and lifecycle.rs:13: the probe command is issued
          /\ caller[p].pc = "call"
          /\ increment_manual_operation(p)
          /\ caller' = [caller EXCEPT ![p].pc = "await",
                                      ![p].issued = Append(@, "probe")]
          /\ UNCHANGED <<evars, svars, lvars, uvars, pvars, wvars, bg, heavy_op_lock, tasks>>
       \/ \* lifecycle.rs:15-18: the probe failed
          LightVerbFailed(p, "probe")
       \/ ProbeSucceeded(p)
       \/ \* ops.rs:14-21, 25: the refresh is done, the re-check is spawned
          /\ caller[p].pc = "refresh"
          /\ tasks' = tasks \cup {DetachedTask(p, RecheckDelaySecs)}
          /\ caller' = [caller EXCEPT ![p] = Returned(caller[p], caller[p].result)]
          /\ UNCHANGED <<evars, svars, lvars, uvars, pvars, wvars, bg, manual_operations, heavy_op_lock, net>>

\* a plausible slip: stop_distro issues its command only when heavy_op_lock is free
StopDistroBehindLock(p) ==
    /\ caller[p].fn = "stop_distro"
    /\ \/ /\ caller[p].pc = "call"
          /\ heavy_op_lock = 0
          /\ increment_manual_operation(p)
          /\ caller' = [caller EXCEPT ![p].pc = "await",
                                      ![p].issued = Append(@, "terminate")]
          /\ UNCHANGED <<evars, svars, lvars, uvars, pvars, wvars, bg, heavy_op_lock, tasks>>
       \/ LightVerbFailed(p, "terminate")
       \/ /\ caller[p].pc = "await"
          /\ caller' = [caller EXCEPT ![p] =
               [Completed(caller[p], "terminate", TRUE) EXCEPT
                  !.pc = "refresh", !.refreshes = @ + 1,
                  !.result = Res(TRUE, "terminate")]]
          /\ UNCHANGED <<evars, svars, lvars, uvars, pvars, wvars, bg, manual_operations, heavy_op_lock, tasks, net>>
       \/ /\ caller[p].pc = "refresh"
          /\ tasks' = tasks \cup {DetachedTask(p, RecheckDelaySecs)}
          /\ caller' = [caller EXCEPT ![p] = Returned(caller[p], caller[p].result)]
          /\ UNCHANGED <<evars, svars, lvars, uvars, pvars, wvars, bg, manual_operations, heavy_op_lock, net>>

\* WslDashboard::stop_distro, ops.rs:28-47
StopDistro(p) ==
    /\ caller[p].fn = "stop_distro"
    /\ \/ \* ops.rs:29-30 and lifecycle.rs:53: --terminate is issued
          /\ caller[p].pc = "call"
          /\ increment_manual_operation(p)
          /\ caller' = [caller EXCEPT ![p].pc = "await",
                                      ![p].issued = Append(@, "terminate")]
          /\ UNCHANGED <<evars, svars, lvars, uvars, pvars, wvars, bg, heavy_op_lock, tasks>>
       \/ \* ops.rs:43-46: the command failed
          LightVerbFailed(p, "terminate")
       \/ \* ops.rs:31-33: the command succeeded, refresh_distros
          /\ caller[p].pc = "await"
          /\ caller' = [caller EXCEPT ![p] =
               [Completed(caller[p], "terminate", TRUE) EXCEPT
                  !.pc = "refresh", !.refreshes = @ + 1,
                  !.result = Res(TRUE, "terminate")]]
          /\ UNCHANGED <<evars, svars, lvars, uvars, pvars, wvars, bg, manual_operations, heavy_op_lock, tasks, net>>
       \/ \* ops.rs:35-42, 46: the refresh is done, the re-check is spawned
          /\ caller[p].pc = "refresh"
          /\ tasks' = tasks \cup {DetachedTask(p, RecheckDelaySecs)}
          /\ caller' = [caller EXCEPT ![p] = Returned(caller[p], caller[p].result)]
          /\ UNCHANGED <<evars, svars, lvars, uvars, pvars, wvars, bg, manual_operations, heavy_op_lock, net>>

\* WslDashboard::shutdown_wsl, ops.rs:59-68
ShutdownWsl(p) ==
    /\ caller[p].fn = "shutdown_wsl"
    /\ \/ \* ops.rs:60-62 and lifecycle.rs:57: --shutdown is issued
          /\ caller[p].pc = "call"
          /\ increment_manual_operation(p)
          /\ caller' = [caller EXCEPT ![p].pc = "await",
                                      ![p].issued = Append(@, "shutdown")]
          /\ UNCHANGED <<evars, svars, lvars, uvars, pvars, wvars, bg, heavy_op_lock, tasks>>
       \/ \* ops.rs:63, 66-67: the command failed
          /\ caller[p].pc = "await"
          /\ decrement_manual_operation(p)
          /\ caller' = [caller EXCEPT ![p] =
               Returned(Completed(caller[p], "shutdown", FALSE), Res(FALSE, "shutdown"))]
          /\ UNCHANGED <<evars, svars, lvars, uvars, pvars, wvars, bg, heavy_op_lock, tasks>>
       \/ \* ops.rs:63-64: the command succeeded, refresh_distros
          /\ caller[p].pc = "await"
          /\ caller' = [caller EXCEPT ![p] =
               [Completed(caller[p], "shutdown", TRUE) EXCEPT
                  !.pc = "refresh", !.refreshes = @ + 1,
                  !.result = Res(TRUE, "shutdown")]]
          /\ UNCHANGED <<evars, svars, lvars, uvars, pvars, wvars, bg, manual_operations, heavy_op_lock, tasks, net>>
       \/ \* ops.rs:66-67: the refresh is done
          /\ caller[p].pc = "refresh"
          /\ decrement_manual_operation(p)
          /\ caller' = [caller EXCEPT ![p] = Returned(caller[p], caller[p].result)]
          /\ UNCHANGED <<evars, svars, lvars, uvars, pvars, wvars, bg, heavy_op_lock, tasks>>

\* a plausible slip: the lock is taken without waiting for its holder
LockNoWait(p) == heavy_op_lock' = p

\* tokio::sync::Mutex::lock().await on heavy_op_lock, ops.rs:71, 98, 106, 117
Lock(p) == heavy_op_lock = 0 /\ heavy_op_lock' = p

\* a plausible slip: the lock is released on the success path only
UnlockAfterSuccess(p) ==
    heavy_op_lock' = IF heavy_op_lock = p /\ caller[p].result.success
                     THEN 0 ELSE heavy_op_lock

\* the guard _heavy_lock is dropped when the verb returns
Unlock(p) == heavy_op_lock' = IF heavy_op_lock = p THEN 0 ELSE heavy_op_lock

\* the environment delete_distro is called for
DeletedDistro == "Debian"

\* ---- delete_distro: the lookup of the launcher package, lifecycle.rs:63-145

\* the registry the lookup script reads: the registered environments, each with the
\* PackageFamilyName of its launcher ("" when it has none)
Registries ==
    {{[name |-> "Debian", pfn |-> ""], [name |-> "Ubuntu", pfn |-> "pkgA"]},
     {[name |-> "Debian", pfn |-> "pkgA"]}}
    \cup {{[name |-> "Debian", pfn |-> "pkgA"], [name |-> "Ubuntu", pfn |-> q]} :
            q \in {"pkgA", "pkgB"}}

\* the script of lifecycle.rs:64-100 run on registry reg for environment distro
PfnScript(reg, distro) ==
    LET withPfn == {e \in reg : e.pfn # ""}
        targetPfn == IF \E e \in withPfn : e.name = distro
                     THEN (CHOOSE e \in withPfn : e.name = distro).pfn
                     ELSE ""
        pfnCount == Cardinality({e \in withPfn : e.pfn = targetPfn})
    IN  [pfn |-> targetPfn, should_remove |-> (targetPfn # "" /\ pfnCount = 1)]

\* what the lookup comes to, lifecycle.rs:115-145: the output of the script on some
\* registry, output that is no JSON, a failure to spawn or to wait, the timeout
LookupOutcomes ==
    {[kind |-> "output", reg |-> r] : r \in Registries}
    \cup {[kind |-> k, reg |-> {}] : k \in {"unparsable", "io_err", "timeout"}}

\* a plausible slip: the package is flagged whenever the lookup names one
PfnToRemoveIgnoringFlag(lk, distro) ==
    IF lk.kind = "output" /\ PfnScript(lk.reg, distro).pfn # ""
    THEN Some(PfnScript(lk.reg, distro).pfn)
    ELSE None

\* lifecycle.rs:112, 125-145: pfn_to_remove after the lookup
PfnToRemove(lk, distro) ==
    IF lk.kind = "output"
    THEN LET parsed == PfnScript(lk.reg, distro)
         IN  IF parsed.pfn # "" /\ parsed.should_remove THEN Some(parsed.pfn) ELSE None
    ELSE None

\* the launcher removal task of lifecycle.rs:179-236, as spawned
AppxRemovalTasks(p) ==
    IF caller[p].pfn_to_remove # None
    THEN {[owner |-> p, call |-> caller[p].calls, kind |-> "appx_removal",
           pfn |-> caller[p].pfn_to_remove[1], pc |-> "queued"]}
    ELSE {}

\* what the removal of the configuration entry comes to, lifecycle.rs:151-161:
\* Ok, Err, or a panic of the blocking task
ConfigOutcomes == {"ok", "err", "join_err"}

\* the call of caller p once the lookup lk, the removal of the configuration entry
\* (cfg) and the removal of the autostart line (auto) are over and --unregister is
\* issued, lifecycle.rs:112-169; lookup, all_failed and before (the persisted
\* configuration found by delete_distro) are history
Unregistering(p, lk, cfg, auto) ==
    [caller[p] EXCEPT
        !.pc = "await",
        !.lookup = lk,
        !.pfn_to_remove = PfnToRemove(lk, DeletedDistro),
        !.all_failed = (lk.kind # "output" /\ cfg # "ok" /\ ~auto),
        !.before = Some([toml |-> instances_toml, vbs |-> autostart_vbs]),
        !.issued = Append(@, "unregister")]

\* autostart.rs:61-62: the header of the file and the line of an environment
VbsHeader == <<"Set ws = WScript.CreateObject(\"WScript.Shell\")">>
line_to_manage(distro_name) == <<"ws.run", distro_name>>

\* autostart.rs:64-94: the lines update_windows_autostart writes back: those of
\* the file that are not empty (the header alone when there is no file), the
\* header put first when it is missing, the line of the environment added or
\* removed
update_windows_autostart(vbs, distro_name, enable) ==
    LET read == IF vbs # None THEN SelectSeq(vbs[1], LAMBDA l : l # <<>>)
                ELSE <<VbsHeader>>
        lines == IF \E i \in 1..Len(read) : read[i] = VbsHeader
                 THEN read ELSE <<VbsHeader>> \o read
    IN  IF enable
        THEN IF \E i \in 1..Len(lines) : lines[i] = line_to_manage(distro_name)
             THEN lines ELSE Append(lines, line_to_manage(distro_name))
        ELSE SelectSeq(lines, LAMBDA l : l # line_to_manage(distro_name))

\* lifecycle.rs:150-166: remove_instance_config removes the entry unless it fails;
\* update_windows_autostart(distro_name, false) writes the file back unless the
\* read or the write fails
CleanUp(cfg, auto) ==
    /\ instances_toml' = IF cfg = "ok" THEN instances_toml \ {DeletedDistro}
                         ELSE instances_toml
    /\ autostart_vbs' = IF auto
                        THEN Some(update_windows_autostart(autostart_vbs, DeletedDistro, FALSE))
                        ELSE autostart_vbs

\* a plausible slip: the failure of update_windows_autostart is propagated with `?`
CleanupThenUnregisterOrAbort(p) ==
    /\ caller[p].pc = "lock"
    /\ heavy_op_lock = 0
    /\ \E lk \in LookupOutcomes : \E cfg \in ConfigOutcomes : \E auto \in BOOLEAN :
         /\ CleanUp(cfg, auto)
         /\ IF auto
            THEN /\ heavy_op_lock' = p
                 /\ increment_manual_operation(p)
                 /\ caller' = [caller EXCEPT ![p] = Unregistering(p, lk, cfg, auto)]
            ELSE /\ caller' = [caller EXCEPT ![p] =
                      Returned(caller[p], Res(FALSE, "autostart"))]
                 /\ UNCHANGED <<heavy_op_lock, manual_operations, net>>
    /\ UNCHANGED <<evars, svars, lvars, uvars, wvars, bg, tasks>>

\* ops.rs:71-75 and lifecycle.rs:63-169: the lock, the increment, then the lookup
\* (output, unparsable output, an error or the timeout), the removal of the
\* configuration entry and update_windows_autostart, whose failures are logged;
\* --unregister is issued
CleanupThenUnregister(p) ==
    /\ caller[p].pc = "lock"
    /\ Lock(p)
    /\ increment_manual_operation(p)
    /\ \E lk \in LookupOutcomes : \E cfg \in ConfigOutcomes : \E auto \in BOOLEAN :
         /\ caller' = [caller EXCEPT ![p] = Unregistering(p, lk, cfg, auto)]
         /\ CleanUp(cfg, auto)
    /\ UNCHANGED <<evars, svars, lvars, uvars, wvars, bg, tasks>>

\* no environment has an entry or an autostart line
NothingPersisted ==
    /\ instances_toml = {}
    /\ autostart_vbs = Some(<<VbsHeader>>)

\* the environment to delete and another have entries; the file is missing, or
\* has the lines of both, with or without the header and an empty line
InitPersisted ==
    /\ instances_toml \in {{"Debian", "Ubuntu"}, {"Ubuntu"}}
    /\ autostart_vbs \in
          {None,
           Some(<<VbsHeader, line_to_manage("Debian"), line_to_manage("Ubuntu")>>),
           Some(<<line_to_manage("Ubuntu"), <<>>, line_to_manage("Debian")>>),
           Some(<<VbsHeader, line_to_manage("Ubuntu")>>)}

\* a plausible slip: the launcher removal is spawned before the result is looked at
UnregisterFailedAfterSpawn(p) ==
    /\ caller[p].pc = "await"
    /\ bg' = bg \cup AppxRemovalTasks(p)
    /\ decrement_manual_operation(p)
    /\ Unlock(p)
    /\ caller' = [caller EXCEPT ![p] =
         Returned(Completed(caller[p], "unregister", FALSE), Res(FALSE, "unregister"))]
    /\ UNCHANGED <<evars, svars, lvars, uvars, pvars, wvars, tasks>>

\* lifecycle.rs:171-174 and ops.rs:91-94: --unregister failed
UnregisterFailed(p) ==
    /\ caller[p].pc = "await"
    /\ decrement_manual_operation(p)
    /\ Unlock(p)
    /\ caller' = [caller EXCEPT ![p] =
         Returned(Completed(caller[p], "unregister", FALSE), Res(FALSE, "unregister"))]
    /\ UNCHANGED <<evars, svars, lvars, uvars, pvars, wvars, bg, tasks>>

\* a plausible slip: the launcher removal is left to the detached task of ops.rs
UnregisterSucceededNoSpawn(p) ==
    /\ caller[p].pc = "await"
    /\ caller' = [caller EXCEPT ![p] =
         [Completed(caller[p], "unregister", TRUE) EXCEPT
            !.pc = "refresh", !.refreshes = @ + 1, !.lookup = NoLookup,
            !.result = Res(TRUE, "delete_distro")]]
    /\ UNCHANGED <<evars, svars, lvars, uvars, pvars, wvars, bg, manual_operations, heavy_op_lock, tasks, net>>

\* lifecycle.rs:176-238 and ops.rs:77-79: --unregister succeeded; the launcher
\* removal is spawned if a package is flagged, delete_distro of lifecycle.rs
\* returns success, refresh_distros
UnregisterSucceeded(p) ==
    /\ caller[p].pc = "await"
    /\ bg' = bg \cup AppxRemovalTasks(p)
    /\ caller' = [caller EXCEPT ![p] =
         [Completed(caller[p], "unregister", TRUE) EXCEPT
            !.pc = "refresh", !.refreshes = @ + 1, !.lookup = NoLookup,
            !.result = Res(TRUE, "delete_distro")]]
    /\ UNCHANGED <<evars, svars, lvars, uvars, pvars, wvars, manual_operations, heavy_op_lock, tasks, net>>

\* WslDashboard::delete_distro, ops.rs:70-95, with delete_distro of lifecycle.rs:60-239
DeleteDistro(p) ==
    /\ caller[p].fn = "delete_distro"
    /\ \/ CleanupThenUnregister(p)
       \/ UnregisterFailed(p)
       \/ UnregisterSucceeded(p)
       \/ \* ops.rs:81-90, 94: the refresh is done, the second check is spawned
          /\ caller[p].pc = "refresh"
          /\ tasks' = tasks \cup {DetachedTask(p, SettleDelaySecs)}
          /\ Unlock(p)
          /\ caller' = [caller EXCEPT ![p] = Returned(caller[p], caller[p].result)]
          /\ UNCHANGED <<evars, svars, lvars, uvars, pvars, wvars, bg, manual_operations, net>>

\* a plausible slip: export_distro refreshes on success as import_distro does
ExportDistroRefreshing(p) ==
    /\ caller[p].fn = "export_distro"
    /\ \/ /\ caller[p].pc = "lock"
          /\ Lock(p)
          /\ increment_manual_operation(p)
          /\ caller' = [caller EXCEPT ![p].pc = "await",
                                      ![p].issued = Append(@, "export")]
          /\ UNCHANGED <<evars, svars, lvars, uvars, pvars, wvars, bg, tasks>>
       \/ /\ caller[p].pc = "await"
          /\ decrement_manual_operation(p)
          /\ Unlock(p)
          /\ \E ok \in BOOLEAN :
               caller' = [caller EXCEPT ![p] =
                           Returned([Completed(caller[p], "export", ok) EXCEPT
                                       !.refreshes = IF ok THEN @ + 1 ELSE @],
                                    Res(ok, "export"))]
          /\ UNCHANGED <<evars, svars, lvars, uvars, pvars, wvars, bg, tasks>>

\* WslDashboard::export_distro, ops.rs:97-103
ExportDistro(p) ==
    /\ caller[p].fn = "export_distro"
    /\ \/ \* ops.rs:98-100: --export is issued
          /\ caller[p].pc = "lock"
          /\ Lock(p)
          /\ increment_manual_operation(p)
          /\ caller' = [caller EXCEPT ![p].pc = "await",
                                      ![p].issued = Append(@, "export")]
          /\ UNCHANGED <<evars, svars, lvars, uvars, pvars, wvars, bg, tasks>>
       \/ \* ops.rs:100-102: the command is over, with either outcome
          /\ caller[p].pc = "await"
          /\ decrement_manual_operation(p)
          /\ Unlock(p)
          /\ \E ok \in BOOLEAN :
               caller' = [caller EXCEPT ![p] =
                           Returned(Completed(caller[p], "export", ok), Res(ok, "export"))]
          /\ UNCHANGED <<evars, svars, lvars, uvars, pvars, wvars, bg, tasks>>

\* import_distro and move_distro, ops.rs:105-114 and 116-125
ImportOrMove(p, f, cmd) ==
    /\ caller[p].fn = f
    /\ \/ \* ops.rs:106-108, 117-119: the command is issued
          /\ caller[p].pc = "lock"
          /\ Lock(p)
          /\ increment_manual_operation(p)
          /\ caller' = [caller EXCEPT ![p].pc = "await",
                                      ![p].issued = Append(@, cmd)]
          /\ UNCHANGED <<evars, svars, lvars, uvars, pvars, wvars, bg, tasks>>
       \/ \* ops.rs:109, 112-113 and 120, 123-124: the command failed
          /\ caller[p].pc = "await"
          /\ decrement_manual_operation(p)
          /\ Unlock(p)
          /\ caller' = [caller EXCEPT ![p] =
               Returned(Completed(caller[p], cmd, FALSE), Res(FALSE, cmd))]
          /\ UNCHANGED <<evars, svars, lvars, uvars, pvars, wvars, bg, tasks>>
       \/ \* ops.rs:109-110 and 120-121: the command succeeded, refresh_distros
          /\ caller[p].pc = "await"
          /\ caller' = [caller EXCEPT ![p] =
               [Completed(caller[p], cmd, TRUE) EXCEPT
                  !.pc = "refresh", !.refreshes = @ + 1,
                  !.result = Res(TRUE, cmd)]]
          /\ UNCHANGED <<evars, svars, lvars, uvars, pvars, wvars, bg, manual_operations, heavy_op_lock, tasks, net>>
       \/ \* ops.rs:112-113 and 123-124: the refresh is done
          /\ caller[p].pc = "refresh"
          /\ decrement_manual_operation(p)
          /\ Unlock(p)
          /\ caller' = [caller EXCEPT ![p] = Returned(caller[p], caller[p].result)]
          /\ UNCHANGED <<evars, svars, lvars, uvars, pvars, wvars, bg, tasks>>

\* WslDashboard::import_distro, ops.rs:105-114
ImportDistro(p) == ImportOrMove(p, "import_distro", "import")

\* WslDashboard::move_distro, ops.rs:116-125
MoveDistro(p) == ImportOrMove(p, "move_distro", "move")

\* a plausible slip: the detached task ends without the decrement
DetachedStepNoDecrement(t) ==
    \/ /\ t.pc = "sleep" /\ t.timer = 0
       /\ tasks' = (tasks \ {t}) \cup {[t EXCEPT !.pc = "refresh"]}
       /\ UNCHANGED <<evars, svars, lvars, uvars, pvars, wvars, bg, caller, manual_operations, heavy_op_lock, net>>
    \/ /\ t.pc = "refresh"
       /\ tasks' = tasks \ {t}
       /\ UNCHANGED <<evars, svars, lvars, uvars, pvars, wvars, bg, caller, manual_operations, heavy_op_lock, net>>

\* ops.rs:19, 40, 85-88: how the refresh of the detached task ends; after
\* delete_distro it is under tokio::time::timeout
RefreshOutcomes(t) ==
    IF t.fn = "delete_distro" THEN {"done", "timeout"} ELSE {"done"}

\* the detached task: ops.rs:17-20, 38-41, 84-89
DetachedStep(t) ==
    \/ \* the sleep is over, refresh_distros
       /\ t.pc = "sleep" /\ t.timer = 0
       /\ tasks' = (tasks \ {t}) \cup {[t EXCEPT !.pc = "refresh"]}
       /\ UNCHANGED <<evars, svars, lvars, uvars, pvars, wvars, bg, caller, manual_operations, heavy_op_lock, net>>
    \/ \* the refresh is done (or, after delete, timed out): the decrement
       /\ t.pc = "refresh"
       /\ decrement_manual_operation(t.owner)
       /\ \E res \in RefreshOutcomes(t) : tasks' = tasks \ {t}
       /\ UNCHANGED <<evars, svars, lvars, uvars, pvars, wvars, bg, caller, heavy_op_lock>>

\* lifecycle.rs:24-47: the keep-alive task runs: cmd.spawn() returns Ok or Err, the
\* child is not waited for
KeepAliveStep(b) ==
    /\ b.kind = "keep_alive" /\ b.pc = "queued"
    /\ \E spawned \in BOOLEAN : bg' = bg \ {b}
    /\ UNCHANGED <<evars, svars, lvars, uvars, pvars, wvars, caller, manual_operations, heavy_op_lock, tasks, net>>

\* lifecycle.rs:182-236: the launcher removal task runs: Remove-AppxPackage fails
\* to spawn, exits, fails, or is dropped at the timeout; the outcome is logged
AppxRemovalStep(b) ==
    /\ b.kind = "appx_removal" /\ b.pc = "queued"
    /\ \E res \in {"spawn_err", "ok", "io_err", "timeout"} : bg' = bg \ {b}
    /\ UNCHANGED <<evars, svars, lvars, uvars, pvars, wvars, caller, manual_operations, heavy_op_lock, tasks, net>>

\* a stopwatch runs from the return of stop_distro in restart_distro until the
\* probe of start_distro is issued
StopwatchRuns(c) ==
    c.restart = "sleep" \/ (c.restart = "start" /\ c.pc = "call")

\* one second passes: tokio::time::sleep, ops.rs:17, 38, 55, 84
Tick ==
    /\ \/ \E p \in Callers : caller[p].timer > 0
       \/ \E p \in Callers :
            StopwatchRuns(caller[p]) /\ caller[p].since_stop < RestartDelaySecs
       \/ \E t \in tasks : t.timer > 0
    /\ caller' = [p \in Callers |->
         [caller[p] EXCEPT
            !.timer = IF @ > 0 THEN @ - 1 ELSE 0,
            !.since_stop = IF StopwatchRuns(caller[p]) /\ @ < RestartDelaySecs
                           THEN @ + 1 ELSE @]]
    /\ tasks' = {[t EXCEPT !.timer = IF @ > 0 THEN @ - 1 ELSE 0,
                           !.age = IF t.timer > 0 THEN @ + 1 ELSE @] : t \in tasks}
    /\ UNCHANGED <<evars, svars, lvars, uvars, pvars, wvars, bg, manual_operations, heavy_op_lock, net>>

InitDashboard ==
    /\ caller = [p \in Callers |-> IdleCaller]
    /\ manual_operations = 0
    /\ heavy_op_lock = 0
    /\ tasks = {}
    /\ bg = {}
    /\ net = [p \in Callers |-> 0]

NextDashboard ==
    \/ \E p \in Callers :
         \/ Call(p)
         \/ StartDistro(p)
         \/ StopDistro(p)
         \/ RestartDistroWake(p)
         \/ ShutdownWsl(p)
         \/ DeleteDistro(p)
         \/ ExportDistro(p)
         \/ ImportDistro(p)
         \/ MoveDistro(p)
    \/ \E t \in tasks : DetachedStep(t)
    \/ \E b \in bg : KeepAliveStep(b)
    \/ \E b \in bg : AppxRemovalStep(b)
    \/ Tick

\* ------------------------------------------------- the commands of lifecycle.rs

\* the names and paths the verbs are called with
DistroNames == { <<"U","b","u","n","t","u">>, <<"D","e","b","i","a","n">> }
NewPaths == { <<"D",":","\\","w","s","l">>, <<"E",":","\\","v","m">> }

\* lifecycle.rs:53
stop_distro_command(distro_name) ==
    << <<"-","-","t","e","r","m","i","n","a","t","e">>, distro_name >>

\* lifecycle.rs:57
shutdown_wsl_command == << <<"-","-","s","h","u","t","d","o","w","n">> >>

\* lifecycle.rs:169
unregister_command(distro_name) ==
    << <<"-","-","u","n","r","e","g","i","s","t","e","r">>, distro_name >>

\* lifecycle.rs:243
move_distro_command(distro_name, new_path) ==
    << <<"-","-","m","a","n","a","g","e">>, distro_name, <<"-","-","m","o","v","e">>, new_path >>

\* the commands issued for stop_distro, shutdown_wsl, delete_distro and move_distro
MutatingCommands ==
    {stop_distro_command(n) : n \in DistroNames}
    \cup {shutdown_wsl_command}
    \cup {unregister_command(n) : n \in DistroNames}
    \cup {move_distro_command(n, d) : n \in DistroNames, d \in NewPaths}

\* each of those commands, every fate and duration of the process
InitCommands ==
    /\ InitExecVars
    /\ args \in MutatingCommands
    /\ proc \in [fate : Fates, stdout : {<<"x">>}, stderr : {<<>>}, secs : Durations]

\* ------------------------------------------------- spawn_state_listener (tasks.rs)

\* tasks.rs:22, milliseconds
MIN_REFRESH_INTERVAL == 500

\* the step of the clock, milliseconds
TickMillis == 100

\* the notify_one calls considered
MaxNotifications == 3

\* std::time::Instant::duration_since, tasks.rs:34 and 41: the clock stops counting
\* at MIN_REFRESH_INTERVAL, beyond which tasks.rs:35 makes no difference
Later(ms) == IF ms + TickMillis >= MIN_REFRESH_INTERVAL
             THEN MIN_REFRESH_INTERVAL ELSE ms + TickMillis

\* the listener waits in notified() with no wake-up sent to it
Waiting == l_pc = "notified"

\* a plausible slip: a notification wakes who waits and is dropped otherwise
notify_waiters_only ==
    /\ notifications < MaxNotifications
    /\ notifications' = notifications + 1
    /\ unserved' = TRUE
    /\ IF Waiting
       THEN l_pc' = "woken" /\ UNCHANGED <<permit, missed>>
       ELSE /\ UNCHANGED <<l_pc, permit>>
            /\ missed' = IF l_pc \in {"lock", "sleep", "refresh"} THEN missed + 1 ELSE missed
    /\ UNCHANGED <<last_refresh, l_timer, wakeups, invocations, since_completed>>
    /\ UNCHANGED <<evars, svars, cvars, uvars, pvars, wvars>>

\* state_changed().notify_one(), data.rs:174 and the coordinator's own signals: the
\* listener waiting in notified() is woken; with nobody waiting one wake-up is
\* stored, however many calls are made
notify_one ==
    /\ notifications < MaxNotifications
    /\ notifications' = notifications + 1
    /\ unserved' = TRUE
    /\ IF Waiting
       THEN l_pc' = "woken" /\ UNCHANGED <<permit, missed>>
       ELSE /\ permit' = TRUE
            /\ l_pc' = l_pc
            /\ missed' = IF l_pc \in {"lock", "sleep", "refresh"} THEN missed + 1 ELSE missed
    /\ UNCHANGED <<last_refresh, l_timer, wakeups, invocations, since_completed>>
    /\ UNCHANGED <<evars, svars, cvars, uvars, pvars, wvars>>

\* tasks.rs:25-29: state_changed is cloned and notified() is polled: a stored
\* wake-up is taken at once, otherwise the listener waits
Notified ==
    /\ l_pc = "lock"
    /\ IF permit
       THEN l_pc' = "woken" /\ permit' = FALSE /\ missed' = 0
       ELSE l_pc' = "notified" /\ UNCHANGED <<permit, missed>>
    /\ UNCHANGED <<last_refresh, l_timer, notifications, wakeups, invocations,
                   since_completed, unserved>>
    /\ UNCHANGED <<evars, svars, cvars, uvars, pvars, wvars>>

\* a plausible slip: the callback is called at once, whatever time has elapsed
DebounceSleepNone(elapsed) == 0

\* tasks.rs:34-37: the sleep made before the callback when elapsed milliseconds
\* have passed since last_refresh
DebounceSleep(elapsed) ==
    IF elapsed < MIN_REFRESH_INTERVAL THEN MIN_REFRESH_INTERVAL - elapsed ELSE 0

\* tasks.rs:29-37: notified().await returns; the debounce
Debounce ==
    /\ l_pc = "woken"
    /\ wakeups' = wakeups + 1
    /\ l_timer' = DebounceSleep(last_refresh)
    /\ l_pc' = "sleep"
    /\ UNCHANGED <<permit, last_refresh, notifications, invocations, missed,
                   since_completed, unserved>>
    /\ UNCHANGED <<evars, svars, cvars, uvars, pvars, wvars>>

\* tasks.rs:39-40: the sleep, if any, is over; refresh_distros_ui is called
RefreshDistrosUiCalled ==
    /\ l_pc = "sleep" /\ l_timer = 0
    /\ l_pc' = "refresh"
    /\ invocations' = invocations + 1
    /\ unserved' = FALSE
    /\ UNCHANGED <<permit, last_refresh, l_timer, notifications, wakeups, missed,
                   since_completed>>
    /\ UNCHANGED <<evars, svars, cvars, uvars, pvars, wvars>>

\* tasks.rs:40-41: refresh_distros_ui returns, last_refresh is set to now
RefreshDistrosUiReturned ==
    /\ l_pc = "refresh"
    /\ l_pc' = "lock"
    /\ last_refresh' = 0
    /\ since_completed' = 0
    /\ UNCHANGED <<permit, l_timer, notifications, wakeups, invocations, missed, unserved>>
    /\ UNCHANGED <<evars, svars, cvars, uvars, pvars, wvars>>

\* TickMillis milliseconds pass: tokio::time::sleep, tasks.rs:36, and the clock
TickListener ==
    /\ l_timer > 0 \/ last_refresh < MIN_REFRESH_INTERVAL
    /\ l_timer' = IF l_timer > TickMillis THEN l_timer - TickMillis ELSE 0
    /\ last_refresh' = Later(last_refresh)
    /\ since_completed' = Later(since_completed)
    /\ UNCHANGED <<l_pc, permit, notifications, wakeups, invocations, missed, unserved>>
    /\ UNCHANGED <<evars, svars, cvars, uvars, pvars, wvars>>

\* the listener as spawned, tasks.rs:20-24
InitListener ==
    /\ l_pc = "lock"
    /\ permit = FALSE
    /\ last_refresh = 0
    /\ l_timer = 0
    /\ notifications = 0 /\ wakeups = 0 /\ invocations = 0 /\ missed = 0
    /\ since_completed = 0
    /\ unserved = FALSE

\* no listener
IdleListener ==
    /\ l_pc = "none"
    /\ permit = FALSE
    /\ last_refresh = 0
    /\ l_timer = 0
    /\ notifications = 0 /\ wakeups = 0 /\ invocations = 0 /\ missed = 0
    /\ since_completed = 0
    /\ unserved = FALSE

\* a step of the listener's loop
ListenerStep ==
    \/ Notified
    \/ Debounce
    \/ RefreshDistrosUiCalled
    \/ RefreshDistrosUiReturned

NextListener ==
    \/ notify_one
    \/ Notified
    \/ Debounce
    \/ RefreshDistrosUiCalled
    \/ RefreshDistrosUiReturned
    \/ TickListener

\* ------------------------------------------------- refresh_distros_ui (data.rs)

\* the tasks that call refresh_distros_ui: the state listener (tasks.rs:40) and the
\* others (refresh_data, data.rs:49; perform_clone, clone_logic.rs:89)
NumUiCallers == 2
UiCallers == 1..NumUiCallers
Listener == 1

\* the direct calls and the changes of the cached list considered
MaxDirectCalls == 2
MaxChanges == 1

\* the variables of the listener other than the stored wake-up
lvars_but_permit == <<l_pc, last_refresh, l_timer, notifications, wakeups, invocations,
                      missed, since_completed, unserved>>

\* environments are named by the rank of their lowercased names; the first has a
\* name that icon_mapper knows no icon key for, the others have names it knows
CustomName == 1

\* an entry of the cached list
WslDistro(name, st, version, is_default) ==
    [name |-> name, status |-> st, version |-> version, is_default |-> is_default]

\* the list the dashboard holds at startup: one running environment
InstalledAtStartup == <<WslDistro(CustomName, "Running", "2", TRUE)>>

\* the next environment installed
Installed(list) == WslDistro(Len(list) + 1, "Stopped", "2", FALSE)

\* the lists the cache is replaced with where the fields of the model matter: no
\* environment, the first one in each state, version and default flag, a second
\* one alone, and both, in either order
CachedLists ==
    {<<>>}
    \cup {<<WslDistro(CustomName, st, "2", TRUE)>> : st \in {"Running", "Stopped"}}
    \cup {<<WslDistro(CustomName, "Running", v, df)>> : v \in {"1", "2"}, df \in BOOLEAN}
    \cup {<<Installed(InstalledAtStartup)>>}
    \cup {<<InstalledAtStartup[1], Installed(InstalledAtStartup)>>,
          <<Installed(InstalledAtStartup), InstalledAtStartup[1]>>}

\* data.rs:80: sort_by on the lowercased names, which are distinct
SortByName(list) ==
    LET n == Len(list)
        rank(j) == Cardinality({k \in 1..n : list[k].name < list[j].name}) + 1
    IN  [i \in 1..n |-> list[CHOOSE j \in 1..n : rank(j) = i]]

\* data.rs:100 and icon_mapper: the icon key of a name, a static one or the one a
\* probe has added
map_name_to_icon_key(name, mapping) ==
    IF name # CustomName \/ mapping THEN Some(name) ELSE None

\* data.rs:102-106: the names that go to the background icon check
NeedsIconCheck(list, mapping, marked) ==
    {list[i].name : i \in {j \in 1..Len(list) :
        /\ map_name_to_icon_key(list[j].name, mapping) = None
        /\ list[j].status = "Running"
        /\ ~marked}}

\* data.rs:108-123, 201-224: the Distro of the model; the icon is the image loaded
\* for the key, has_icon whether there is one, the initial that of the name, the
\* display name that of the key
Distro(d, mapping) ==
    LET icon_key == map_name_to_icon_key(d.name, mapping)
    IN  [name |-> d.name, status |-> d.status, version |-> d.version,
         is_default |-> d.is_default, icon |-> icon_key, has_icon |-> icon_key # None,
         initial |-> d.name, distro_display_name |-> icon_key]

\* data.rs:78-124, 201-224: the model computed from the cached list and the icon
\* keys
ModelOf(list, mapping) ==
    LET sorted == SortByName(list)
    IN  [i \in 1..Len(sorted) |-> Distro(sorted[i], mapping)]

IdleUiCall == [pc |-> "idle", model |-> None]

\* a plausible slip: the flag is not tested, every call runs the body
EnterAlways(r) ==
    /\ IS_REFRESHING' = TRUE
    /\ ui_call' = [ui_call EXCEPT ![r].pc = "locked"]

\* data.rs:61-69: compare_exchange on IS_REFRESHING; the call returns at once when
\* another is in progress
Enter(r) ==
    IF IS_REFRESHING
    THEN UNCHANGED <<IS_REFRESHING, ui_call>>
    ELSE /\ IS_REFRESHING' = TRUE
         /\ ui_call' = [ui_call EXCEPT ![r].pc = "locked"]

\* tasks.rs:29-40: the listener takes the stored wake-up and, the interval slept
\* out, calls refresh_distros_ui
ListenerCalls(r) ==
    /\ r = Listener /\ ui_call[r].pc = "idle"
    /\ permit /\ permit' = FALSE
    /\ Enter(r)
    /\ UNCHANGED <<IS_UI_UPDATING, LAST_DISTROS, distros, dynamic_mapping, probed,
                   event_loop, shown, icon_tasks, direct_calls, last_run>>
    /\ UNCHANGED <<evars, svars, cvars, lvars_but_permit, pvars, wvars>>

\* data.rs:49, clone_logic.rs:89: another task calls refresh_distros_ui
DirectCall(r) ==
    /\ r # Listener /\ ui_call[r].pc = "idle"
    /\ direct_calls < MaxDirectCalls
    /\ direct_calls' = direct_calls + 1
    /\ Enter(r)
    /\ UNCHANGED <<IS_UI_UPDATING, LAST_DISTROS, distros, dynamic_mapping, probed,
                   event_loop, shown, icon_tasks, last_run>>
    /\ UNCHANGED <<evars, svars, cvars, lvars, pvars, wvars>>

\* is_distro_probed is consulted by the body and mark_distro_probed is called by
\* the task, data.rs:103 and 134
IconTask(n) == [id |-> n, pc |-> "spawned"]

\* an identity for a new task
FreeId(ts) == CHOOSE n \in 1..(Cardinality(ts) + 1) : \A t \in ts : t.id # n

\* data.rs:75-177: the cached list is read, the model computed, and a background
\* icon check spawned when the environment has no icon key and is not probed
ReadCache(r) ==
    /\ ui_call[r].pc = "locked"
    /\ ui_call' = [ui_call EXCEPT ![r] =
          [pc |-> "update", model |-> Some(ModelOf(distros, dynamic_mapping))]]
    /\ IF NeedsIconCheck(distros, dynamic_mapping, probed) # {}
       THEN icon_tasks' = icon_tasks \cup {IconTask(FreeId(icon_tasks))}
       ELSE UNCHANGED icon_tasks
    /\ UNCHANGED <<IS_REFRESHING, IS_UI_UPDATING, LAST_DISTROS, distros, dynamic_mapping,
                   probed, event_loop, shown, direct_calls, last_run>>
    /\ UNCHANGED <<evars, svars, cvars, lvars, pvars, wvars>>

\* data.rs:183-186, 194, 276-284 and the guard of data.rs:67-69: compare_exchange
\* on IS_UI_UPDATING; the call returns when an update is pending, otherwise the
\* closure is handed to the event loop; IS_REFRESHING is reset at the return
Dispatch(r) ==
    /\ ui_call[r].pc = "update"
    /\ IF IS_UI_UPDATING
       THEN UNCHANGED <<IS_UI_UPDATING, event_loop>>
       ELSE IS_UI_UPDATING' = TRUE /\ event_loop' = ui_call[r].model
    /\ IS_REFRESHING' = FALSE
    /\ ui_call' = [ui_call EXCEPT ![r] = IdleUiCall]
    /\ UNCHANGED <<LAST_DISTROS, distros, dynamic_mapping, probed, shown, icon_tasks, direct_calls, last_run>>
    /\ UNCHANGED <<evars, svars, cvars, lvars, pvars, wvars>>

\* data.rs:183, 194, 280-282: invoke_from_event_loop returns Err; the closure is
\* dropped without having run, the call logs a warning and returns
DispatchFailed(r) ==
    /\ ui_call[r].pc = "update"
    /\ ~IS_UI_UPDATING
    /\ IS_UI_UPDATING' = TRUE
    /\ IS_REFRESHING' = FALSE
    /\ ui_call' = [ui_call EXCEPT ![r] = IdleUiCall]
    /\ UNCHANGED <<LAST_DISTROS, distros, dynamic_mapping, probed, event_loop, shown,
                   icon_tasks, direct_calls, last_run>>
    /\ UNCHANGED <<evars, svars, cvars, lvars, pvars, wvars>>

\* a plausible slip: the status is left out of the comparison
should_update_but_status(last, model) ==
    IF last # None
    THEN IF Len(last[1]) # Len(model)
         THEN TRUE
         ELSE \E i \in 1..Len(model) :
                \/ last[1][i].name # model[i].name
                \/ last[1][i].version # model[i].version
                \/ last[1][i].is_default # model[i].is_default
                \/ last[1][i].has_icon # model[i].has_icon
                \/ last[1][i].initial # model[i].initial
                \/ last[1][i].distro_display_name # model[i].distro_display_name
    ELSE TRUE

\* data.rs:227-250: whether the model differs from the one remembered, the icon
\* left out of the comparison
should_update(last, model) ==
    IF last # None
    THEN IF Len(last[1]) # Len(model)
         THEN TRUE
         ELSE \E i \in 1..Len(model) :
                \/ last[1][i].name # model[i].name
                \/ last[1][i].status # model[i].status
                \/ last[1][i].version # model[i].version
                \/ last[1][i].is_default # model[i].is_default
                \/ last[1][i].has_icon # model[i].has_icon
                \/ last[1][i].initial # model[i].initial
                \/ last[1][i].distro_display_name # model[i].distro_display_name
    ELSE TRUE

\* data.rs:194-274: the event loop runs the closure: LAST_DISTROS is compared and
\* replaced, set_distros is called when the model changed (the window exists as
\* long as its event loop runs), and the guard of data.rs:196-198 resets
\* IS_UI_UPDATING
RunClosure ==
    /\ event_loop # None
    /\ IF should_update(LAST_DISTROS, event_loop[1])
       THEN /\ LAST_DISTROS' = event_loop
            /\ shown' = event_loop
            /\ last_run' = Some([model |-> event_loop[1], set |-> TRUE])
       ELSE /\ UNCHANGED <<LAST_DISTROS, shown>>
            /\ last_run' = Some([model |-> event_loop[1], set |-> FALSE])
    /\ IS_UI_UPDATING' = FALSE
    /\ event_loop' = None
    /\ UNCHANGED <<IS_REFRESHING, distros, dynamic_mapping, probed, ui_call, icon_tasks, direct_calls>>
    /\ UNCHANGED <<evars, svars, cvars, lvars, pvars, wvars>>

\* data.rs:132-136: the task marks the environment as probed and issues the
\* command that reads /etc/os-release
IconMark(t) ==
    /\ t.pc = "spawned"
    /\ probed' = TRUE
    /\ icon_tasks' = (icon_tasks \ {t}) \cup {[t EXCEPT !.pc = "probing"]}
    /\ UNCHANGED <<IS_REFRESHING, IS_UI_UPDATING, LAST_DISTROS, distros, dynamic_mapping,
                   ui_call, event_loop, shown, direct_calls, last_run>>
    /\ UNCHANGED <<evars, svars, cvars, lvars, pvars, wvars>>

\* data.rs:137-175: the command is over: a key was found (the mapping is added and
\* the change signal raised), none was found, or the command failed (the mark is
\* removed)
IconProbeEnds(t) ==
    /\ t.pc = "probing"
    /\ icon_tasks' = icon_tasks \ {t}
    /\ \E res \in {"found", "none", "failed"} :
         /\ dynamic_mapping' = IF res = "found" THEN TRUE ELSE dynamic_mapping
         /\ probed' = IF res = "failed" THEN FALSE ELSE probed
         /\ permit' = IF res = "found" THEN TRUE ELSE permit
    /\ UNCHANGED <<IS_REFRESHING, IS_UI_UPDATING, LAST_DISTROS, distros, ui_call,
                   event_loop, shown, direct_calls, last_run>>
    /\ UNCHANGED <<evars, svars, cvars, lvars_but_permit, pvars, wvars>>

\* the dashboard replaces its cached list and raises the change signal
CacheChangesTo(list) ==
    /\ distros' = list
    /\ permit' = TRUE
    /\ UNCHANGED <<IS_REFRESHING, IS_UI_UPDATING, LAST_DISTROS, dynamic_mapping, probed,
                   ui_call, event_loop, shown, icon_tasks, direct_calls, last_run>>
    /\ UNCHANGED <<evars, svars, cvars, lvars_but_permit, pvars, wvars>>

\* one more environment is installed
CacheGrows ==
    /\ Len(distros) <= MaxChanges
    /\ CacheChangesTo(Append(distros, Installed(distros)))

\* between two refreshes the dashboard replaces its cached list with any list, the
\* same one included
CacheReplaced ==
    /\ \A r \in UiCallers : ui_call[r].pc = "idle"
    /\ event_loop = None /\ icon_tasks = {}
    /\ \E list \in CachedLists : CacheChangesTo(list)

\* nothing has called refresh_distros_ui yet
IdleUi ==
    /\ IS_REFRESHING = FALSE /\ IS_UI_UPDATING = FALSE
    /\ LAST_DISTROS = None
    /\ distros = InstalledAtStartup
    /\ dynamic_mapping = FALSE /\ probed = FALSE
    /\ ui_call = [r \in UiCallers |-> IdleUiCall]
    /\ event_loop = None /\ shown = None
    /\ icon_tasks = {}
    /\ direct_calls = 0
    /\ last_run = None

\* a step of a call of refresh_distros_ui, of the event loop or of an icon check,
\* the event loop accepting the closures
UiStep ==
    \/ \E r \in UiCallers : ListenerCalls(r) \/ ReadCache(r) \/ Dispatch(r)
    \/ RunClosure
    \/ \E t \in icon_tasks : IconMark(t) \/ IconProbeEnds(t)

NextUiLoopRunning ==
    \/ \E r \in UiCallers :
         \/ ListenerCalls(r)
         \/ DirectCall(r)
         \/ ReadCache(r)
         \/ Dispatch(r)
    \/ RunClosure
    \/ \E t \in icon_tasks : IconMark(t)
    \/ \E t \in icon_tasks : IconProbeEnds(t)
    \/ CacheGrows

\* the refreshes of the listener alone, one after the other
NextUiModel ==
    \/ \E r \in UiCallers :
         \/ ListenerCalls(r)
         \/ ReadCache(r)
         \/ Dispatch(r)
    \/ RunClosure
    \/ \E t \in icon_tasks : IconMark(t)
    \/ \E t \in icon_tasks : IconProbeEnds(t)
    \/ CacheReplaced

NextUi ==
    \/ \E r \in UiCallers :
         \/ ListenerCalls(r)
         \/ DirectCall(r)
         \/ ReadCache(r)
         \/ Dispatch(r)
         \/ DispatchFailed(r)
    \/ RunClosure
    \/ \E t \in icon_tasks : IconMark(t)
    \/ \E t \in icon_tasks : IconProbeEnds(t)
    \/ CacheGrows

\* ------------------------------------------------- wsl.conf (distro_config.rs)

\* the lines of a file considered
MaxConfLines == 3

\* the section headers of the files considered
ConfSections == {<<"[network]">>, <<"[interop]">>, <<"[automount]">>}

\* a line is a section header or a comment, <<text>>, or key=value, <<key, value>>
ConfLines ==
    ConfSections \cup {<<"# comment">>}
    \cup {<<k, "false">> : k \in {"generateHosts", "generateResolvConf", "enabled",
                                  "appendWindowsPath"}}
    \cup {<<"enabled", "true">>, <<"systemd", "true">>}

\* the files: every key stands in a section
ConfFiles == {f \in SeqsUpTo(ConfLines, MaxConfLines) : f = <<>> \/ f[1] \in ConfSections}

\* distro_config.rs:13-19
DefaultWslConf ==
    [systemd |-> FALSE, generate_hosts |-> TRUE, generate_resolv_conf |-> TRUE,
     interop_enabled |-> TRUE, append_windows_path |-> TRUE]

\* distro_config.rs:25-39: one line of the file
ParseLine(conf, line) ==
    IF Len(line) = 2
    THEN LET key == line[1]
             value == line[2]
         IN  CASE key = "systemd" -> [conf EXCEPT !.systemd = (value = "true")]
               [] key = "generateHosts" -> [conf EXCEPT !.generate_hosts = (value = "true")]
               [] key = "generateResolvConf" ->
                      [conf EXCEPT !.generate_resolv_conf = (value = "true")]
               [] key = "enabled" -> [conf EXCEPT !.interop_enabled = (value = "true")]
               [] key = "appendWindowsPath" ->
                      [conf EXCEPT !.append_windows_path = (value = "true")]
               [] OTHER -> conf
    ELSE conf

RECURSIVE ParseLines(_, _)
ParseLines(conf, content) ==
    IF content = <<>> THEN conf
    ELSE ParseLines(ParseLine(conf, Head(content)), Tail(content))

\* distro_config.rs:5-45: the defaults, overwritten from the lines of the file
\* when cat succeeded
get_wsl_conf(success, content) ==
    IF success THEN ParseLines(DefaultWslConf, content) ELSE DefaultWslConf

\* format!("{}") of a bool
BoolText(b) == IF b THEN "true" ELSE "false"

\* distro_config.rs:54-61: the content written
WslConfContent(conf) ==
    <<<<"[boot]">>, <<"systemd", BoolText(conf.systemd)>>,
      <<"[network]">>, <<"generateHosts", BoolText(conf.generate_hosts)>>,
      <<"generateResolvConf", BoolText(conf.generate_resolv_conf)>>,
      <<"[interop]">>, <<"enabled", BoolText(conf.interop_enabled)>>,
      <<"appendWindowsPath", BoolText(conf.append_windows_path)>>>>

IdleWslConf ==
    /\ wsl_conf = <<>>
    /\ w_call = [pc |-> "idle", enabled |-> FALSE, conf |-> DefaultWslConf]

InitWslConf ==
    /\ wsl_conf \in ConfFiles
    /\ w_call = [pc |-> "idle", enabled |-> FALSE, conf |-> DefaultWslConf]

\* distro_config.rs:79-81: set_systemd_status(name, enabled) reads the file, the
\* command succeeding or failing, and sets the field
GetWslConf ==
    /\ w_call.pc = "idle"
    /\ \E enabled \in BOOLEAN, success \in BOOLEAN :
         w_call' = [pc |-> "set", enabled |-> enabled,
                    conf |-> [get_wsl_conf(success, wsl_conf) EXCEPT !.systemd = enabled]]
    /\ UNCHANGED <<evars, svars, cvars, lvars, uvars, pvars, wsl_conf>>

\* distro_config.rs:47-70, 82: set_wsl_conf writes the file, unless the command
\* fails
SetWslConf ==
    /\ w_call.pc = "set"
    /\ \E success \in BOOLEAN :
         /\ wsl_conf' = IF success THEN WslConfContent(w_call.conf) ELSE wsl_conf
         /\ w_call' = [w_call EXCEPT !.pc = IF success THEN "written" ELSE "failed"]
    /\ UNCHANGED <<evars, svars, cvars, lvars, uvars, pvars>>

NextWslConf ==
    \/ GetWslConf
    \/ SetWslConf

\* ------------------------------------------------- specifications

\* the call alone: with a process that ends at once or hangs, nothing follows it
NextExec == ExecuteCommand

NextTimeout ==
    \/ ExecuteCommand
    \/ ProcessExitsLate

InitSpecClassify == InitClassify /\ IdleStream /\ InitDashboard /\ IdleListener /\ IdleUi /\ NothingPersisted /\ IdleWslConf

InitSpecExec == InitExec /\ IdleStream /\ InitDashboard /\ IdleListener /\ IdleUi /\ NothingPersisted /\ IdleWslConf

InitSpecStream == InitStream /\ IdleExec /\ InitDashboard /\ IdleListener /\ IdleUi /\ NothingPersisted /\ IdleWslConf

InitSpec == InitDashboard /\ IdleExec /\ IdleStream /\ IdleListener /\ IdleUi /\ NothingPersisted /\ IdleWslConf

\* execute_command on every argument vector
SpecClassify == InitSpecClassify /\ [][NextExec]_vars

\* execute_command on every behaviour of the external process
SpecExec == InitSpecExec /\ [][NextExec]_vars

InitSpecTimeout == InitTimeout /\ IdleStream /\ InitDashboard /\ IdleListener /\ IdleUi /\ NothingPersisted /\ IdleWslConf

\* execute_command on every duration of the external process
SpecTimeout == InitSpecTimeout /\ [][NextTimeout]_vars

\* execute_command_streaming
SpecStream == InitSpecStream /\ [][NextStream]_vars

InitSpecStreamExit == InitStreamExit /\ IdleExec /\ InitDashboard /\ IdleListener /\ IdleUi /\ NothingPersisted /\ IdleWslConf

\* execute_command_streaming with a child that closes its handles before it exits
\* and descendants that hold the pipes open
SpecStreamExit == InitSpecStreamExit /\ [][NextStreamExit]_vars

\* the same, the task of execute_command_streaming being scheduled as long as it
\* has a step to take
SpecStreamExitFair == SpecStreamExit /\ WF_vars(StreamStep)

\* the verbs of WslDashboard called concurrently
Spec == InitSpec /\ [][NextDashboard]_vars

InitSpecListener == InitListener /\ IdleExec /\ IdleStream /\ InitDashboard /\ IdleUi /\ NothingPersisted /\ IdleWslConf

\* the state listener and the notifications it receives
SpecListener == InitSpecListener /\ [][NextListener]_vars

\* the same with a listener task that the runtime keeps scheduling, a callback
\* that returns and time that passes
SpecListenerFair ==
    SpecListener /\ WF_vars(ListenerStep) /\ WF_vars(TickListener)

InitSpecCommands == InitCommands /\ IdleStream /\ InitDashboard /\ IdleListener /\ IdleUi /\ NothingPersisted /\ IdleWslConf

\* execute_command on the commands of the verbs that change the state of WSL
SpecCommands == InitSpecCommands /\ [][NextTimeout]_vars

InitSpecUi ==
    IdleUi /\ IdleExec /\ IdleStream /\ InitDashboard /\ IdleListener /\ NothingPersisted /\ IdleWslConf

\* refresh_distros_ui called by the listener and by other tasks
SpecUi == InitSpecUi /\ [][NextUi]_vars

\* the same with tasks that the runtime keeps scheduling and an event loop that
\* runs the closures it is handed
SpecUiFair == SpecUi /\ WF_vars(UiStep)

\* the same while the event loop accepts every closure
SpecUiLoopRunning == InitSpecUi /\ [][NextUiLoopRunning]_vars

SpecUiLoopRunningFair == SpecUiLoopRunning /\ WF_vars(UiStep)

\* the models the refreshes of the listener compute from the lists of the cache
SpecUiModel == InitSpecUi /\ [][NextUiModel]_vars

\* the command each heavy verb issues: lifecycle.rs:169, 243 and the export and
\* import commands
HeavyCommand(f) ==
    CASE f = "delete_distro" -> "unregister"
      [] f = "export_distro" -> "export"
      [] f = "import_distro" -> "import"
      [] f = "move_distro" -> "move"

\* the wsl.exe process of a command that timed out, executor.rs:43-62: the blocking
\* task still waits for it in command.output()
WslProcess(p) ==
    [owner |-> p, call |-> caller[p].calls, kind |-> "wsl_process", pfn |-> <<>>,
     pc |-> "running"]

\* executor.rs:116-120 and ops.rs:91-94, 100-102, 109-113, 120-124: the command of
\* a heavy verb times out; execute_command returns a failure and leaves the
\* process running, the verb decrements, returns the failure and drops the lock
HeavyCommandTimedOut(p) ==
    /\ caller[p].fn \in HeavyVerbs /\ caller[p].pc = "await"
    /\ decrement_manual_operation(p)
    /\ Unlock(p)
    /\ bg' = bg \cup {WslProcess(p)}
    /\ caller' = [caller EXCEPT ![p] =
         Returned(Completed(caller[p], HeavyCommand(caller[p].fn), FALSE),
                  Res(FALSE, HeavyCommand(caller[p].fn)))]
    /\ UNCHANGED <<evars, svars, lvars, uvars, pvars, wvars, tasks>>

\* the process a timed-out command left behind exits
WslProcessExits(b) ==
    /\ b.kind = "wsl_process"
    /\ bg' = bg \ {b}
    /\ UNCHANGED <<evars, svars, lvars, uvars, pvars, wvars, caller, manual_operations, heavy_op_lock, tasks, net>>

\* a step of a heavy verb by caller p
HeavyVerbStep(p) == DeleteDistro(p) \/ ExportDistro(p) \/ ImportDistro(p) \/ MoveDistro(p)

\* a caller calls delete_distro
CallDelete(p) == CallVerb(p, "delete_distro")

\* delete_distro and what it leaves behind
NextDelete ==
    \/ \E p \in Callers :
         \/ CallDelete(p)
         \/ DeleteDistro(p)
    \/ \E t \in tasks : DetachedStep(t)
    \/ \E b \in bg : AppxRemovalStep(b)
    \/ Tick

\* the heavy verbs and what they leave behind
NextHeavy ==
    \/ \E p \in Callers :
         \/ CallHeavy(p)
         \/ DeleteDistro(p)
         \/ ExportDistro(p)
         \/ ImportDistro(p)
         \/ MoveDistro(p)
         \/ HeavyCommandTimedOut(p)
    \/ \E t \in tasks : DetachedStep(t)
    \/ \E b \in bg : AppxRemovalStep(b)
    \/ \E b \in bg : WslProcessExits(b)
    \/ Tick

\* callers of the heavy verbs only
SpecHeavy == InitSpec /\ [][NextHeavy]_vars

\* the heavy verbs with commands that return and a lock that serves its waiters
\* in turn (tokio::sync::Mutex is first in, first out): a heavy verb that can
\* take a step again and again takes it
SpecHeavyFair == SpecHeavy /\ \A p \in Callers : SF_vars(HeavyVerbStep(p))

InitSpecWslConf ==
    /\ InitWslConf
    /\ InitDashboard /\ IdleExec /\ IdleStream /\ IdleListener /\ IdleUi /\ NothingPersisted

\* set_systemd_status on the files considered
SpecWslConf == InitSpecWslConf /\ [][NextWslConf]_vars

InitSpecDelete ==
    InitDashboard /\ IdleExec /\ IdleStream /\ IdleListener /\ IdleUi /\ InitPersisted
    /\ IdleWslConf

\* delete_distro and the persisted configuration
SpecDelete == InitSpecDelete /\ [][NextDelete]_vars

\* ------------------------------------------------- properties: WslDashboard

\* caller p is between acquiring heavy_op_lock and returning from a heavy verb
InHeavy(p) ==
    /\ caller[p].fn \in HeavyVerbs
    /\ caller[p].pc \in {"await", "refresh"}

\* C1: under any interleaving of delete_distro, export_distro, import_distro and
\* move_distro, at most one caller is between acquiring heavy_op_lock and
\* returning, it is the holder of the lock, and a caller blocked at the lock has
\* issued no command.
C1_HeavyMutualExclusion ==
    /\ \A p, q \in Callers : (InHeavy(p) /\ InHeavy(q)) => p = q
    /\ \A p \in Callers : InHeavy(p) => heavy_op_lock = p
    /\ \A p \in Callers : caller[p].pc = "lock" => caller[p].issued = <<>>

\* a heavy verb has its command in flight while another caller is blocked at the lock
C1_Witness ==
    \E p, q \in Callers :
        /\ InHeavy(p) /\ caller[p].issued # <<>>
        /\ caller[q].pc = "lock" /\ caller[q].fn \in HeavyVerbs

\* caller p is in no verb and no detached task spawned on its behalf is pending
Quiet(p) == caller[p].pc = "idle" /\ ~\E t \in tasks : t.owner = p

\* C2: once a verb has returned and the detached re-check it spawned has finished,
\* the increments and decrements made on its behalf cancel out, whether its command
\* succeeded or failed; with nothing in flight the busy counter is back at its
\* initial value.
C2_BusyCounterRestored ==
    /\ \A p \in Callers : Quiet(p) => net[p] = 0
    /\ (\A p \in Callers : Quiet(p)) => manual_operations = 0

\* one verb succeeded and its re-check has finished, another verb failed
C2_Witness ==
    /\ \A p \in Callers : Quiet(p)
    /\ \E p \in Callers : caller[p].ret = Some(Res(TRUE, "terminate"))
    /\ \E p \in Callers : caller[p].ret = Some(Res(FALSE, "probe"))

\* the verbs that have incremented the counter and whose decrement has not run:
\* those with a command or a refresh in flight, and the pending detached tasks
InFlight ==
    Cardinality({p \in Callers : caller[p].pc \in {"await", "refresh"}})
    + Cardinality(tasks)

\* C3: in every reachable state the busy counter is >= 0 and equals the number of
\* verb invocations that have incremented it and whose decrement has not yet run.
C3_BusyCounterCountsInFlight ==
    /\ manual_operations >= 0
    /\ manual_operations = InFlight

\* a verb is awaiting its command while the re-check of an earlier one is pending
C3_Witness ==
    /\ manual_operations = 2
    /\ \E p \in Callers : caller[p].pc = "await"
    /\ \E t \in tasks : t.pc = "sleep"

\* C6: in restart_distro, a failed stop is returned as it is and no start probe is
\* issued; after a successful stop the probe is issued no earlier than 4 seconds
\* after stop_distro returned.
C6_RestartStopThenStart ==
    \A p \in Callers :
        caller[p].verb = "restart_distro" =>
            /\ (caller[p].completed # <<>> /\ ~caller[p].completed[1].success) =>
                  /\ caller[p].issued = <<"terminate">>
                  /\ caller[p].pc = "idle"
                  /\ caller[p].ret = Some(Res(FALSE, "terminate"))
            /\ (\E i \in 1..Len(caller[p].issued) : caller[p].issued[i] = "probe") =>
                  /\ caller[p].issued = <<"terminate", "probe">>
                  /\ caller[p].completed[1] = [cmd |-> "terminate", success |-> TRUE]
                  /\ caller[p].since_stop >= 4

\* a restart whose stop succeeded has issued its probe
C6_Witness ==
    \E p \in Callers :
        /\ caller[p].verb = "restart_distro"
        /\ caller[p].issued = <<"terminate", "probe">>
        /\ caller[p].pc = "await"

\* ------------------------------------------------- properties: execute_command

C4_WriteSet == {
    <<"-","-","i","m","p","o","r","t">>, <<"-","-","e","x","p","o","r","t">>,
    <<"-","-","u","n","r","e","g","i","s","t","e","r">>,
    <<"-","-","i","n","s","t","a","l","l">>,
    <<"-","-","s","e","t","-","v","e","r","s","i","o","n">>,
    <<"-","-","s","e","t","-","d","e","f","a","u","l","t","-","v","e","r","s","i","o","n">>,
    <<"-","-","s","e","t","-","d","e","f","a","u","l","t">>, <<"-","s">>,
    <<"-","-","s","h","u","t","d","o","w","n">>,
    <<"-","-","t","e","r","m","i","n","a","t","e">>, <<"-","t">>,
    <<"-","-","m","o","u","n","t">>, <<"-","-","u","n","m","o","u","n","t">>,
    <<"-","-","u","p","d","a","t","e">> }

EqualIgnoringCase(a, w) ==
    Len(a) = Len(w) /\ \A k \in 1..Len(a) : LowerChar(a[k]) = LowerChar(w[k])

\* w occurs in a, and a is longer
ProperSubstring(w, a) ==
    /\ Len(w) < Len(a)
    /\ \E k \in 0..(Len(a) - Len(w)) : SubSeq(a, k + 1, k + Len(w)) = w

MatchesWriteToken(a) == \E w \in C4_WriteSet : EqualIgnoringCase(a, w)

\* C4: execute_command selects the 600-second timeout if and only if some
\* argument equals, ignoring case, a token of the write set; every other vector
\* gets 15 seconds, also one whose arguments only contain a token as a substring.
C4_TimeoutClass ==
    e_pc = "returned" =>
        /\ (\E i \in 1..Len(args) : MatchesWriteToken(args[i]))
              => timeout_duration = 600
        /\ (\A i \in 1..Len(args) : ~MatchesWriteToken(args[i]))
              => timeout_duration = 15

\* the long timeout, selected by an argument in upper case alone, beside an
\* argument that contains a token as a substring
C4_Witness ==
    /\ e_pc = "returned" /\ timeout_duration = 600
    /\ \A i \in 1..Len(args) : args[i] \notin C4_WriteSet
    /\ \E i \in 1..Len(args) : \E w \in C4_WriteSet :
          ProperSubstring(w, args[i]) /\ ~MatchesWriteToken(args[i])

AllWhitespace(s) == \A k \in 1..Len(s) : s[k] \in Whitespace

\* C5, as claimed: on a non-zero exit the error is the stdout text when stderr is
\* empty and stdout is not, and the stderr text otherwise.
C5_ErrorFromStdoutWhenStderrEmpty ==
    (e_pc = "returned" /\ proc.fate = "exitN") =>
        /\ e_result.success = FALSE
        /\ e_result.output = proc.stdout
        /\ e_result.error =
              Some(IF proc.stderr = <<>> /\ proc.stdout # <<>>
                   THEN proc.stdout ELSE proc.stderr)

\* C5, amended: on a non-zero exit the result has success=false and the stdout
\* text as output; its error is the stdout text when stderr is empty or only
\* whitespace and stdout has a character that is not whitespace, and the stderr
\* text otherwise.
C5_ErrorFromStdoutWhenStderrBlank ==
    (e_pc = "returned" /\ proc.fate = "exitN") =>
        /\ e_result.success = FALSE
        /\ e_result.output = proc.stdout
        /\ e_result.error =
              Some(IF AllWhitespace(proc.stderr) /\ ~AllWhitespace(proc.stdout)
                   THEN proc.stdout ELSE proc.stderr)

\* a non-zero exit with a stderr of whitespace only: the error is the stdout text
C5_Witness ==
    /\ e_pc = "returned" /\ proc.fate = "exitN"
    /\ proc.stderr # <<>> /\ AllWhitespace(proc.stderr)
    /\ ~AllWhitespace(proc.stdout)
    /\ e_result.error = Some(proc.stdout)

\* ------------------------------------------------- properties: execute_command_streaming

\* the reads of channel ch that returned data, in order
DataReads(ch) == SelectSeq(reads, LAMBDA r : r.ch = ch /\ r.bytes # <<>>)

\* all the bytes read from channel ch
ChannelBytes(ch) ==
    LET rs == DataReads(ch) IN Concat([i \in 1..Len(rs) |-> rs[i].bytes])

\* all the text of channel ch passed to the callback
ChannelText(ch) ==
    LET cs == SelectSeq(cb_log, LAMBDA c : c.ch = ch)
    IN  Concat([i \in 1..Len(cs) |-> cs[i].text])

\* read on channel ch returned Ok(0)
EofSeen(ch) == \E i \in 1..Len(reads) : reads[i] = [ch |-> ch, bytes |-> <<>>]

\* the characters of multi-byte-safe texts, and the texts of up to MaxBytes of them
SafeChars == {<<"61">>, <<"C3", "A9">>}
SafeTexts == SeqsUpTo(SafeChars, MaxBytes)

\* the encodings of the multi-byte-safe texts
SafeEncodings == {Concat(t) : t \in SafeTexts}

\* C7: when the encoding of a multi-byte-safe text is read from stdout in two
\* chunks, split at any byte, the fragments the callback gets make up that text,
\* which is also what decoding all the bytes in one call gives.
C7_TwoChunksDecodeAsOne ==
    Len(DataReads("stdout")) = 2 =>
        LET bs == ChannelBytes("stdout")
        IN  bs \in SafeEncodings =>
                \A t \in SafeTexts :
                    Concat(t) = bs =>
                        /\ ChannelText("stdout") = t
                        /\ decode(<<>>, bs).text = t

\* a safe text read in two chunks, the first of which ends inside a character
C7_Witness ==
    /\ Len(DataReads("stdout")) = 2
    /\ \E t \in SafeTexts : t # <<>> /\ Concat(t) = ChannelBytes("stdout")
    /\ decode(<<>>, DataReads("stdout")[1].bytes).rest # <<>>
    /\ Len(ChannelText("stdout")) >= 2

\* C8, as claimed: when the child's exit is observed in the loop before a channel
\* reached end-of-stream, the bytes the child wrote to that channel are still read
\* before execute_command_streaming returns.
C8_UndrainedChannelFlushedAfterExit ==
    (s_pc = "returned" /\ child.spawn_ok /\ exit_status # None) =>
        /\ ~stdout_done => out_pipe = <<>>
        /\ ~stderr_done => err_pipe = <<>>

\* the fragments the two decoders return for the reads rs, in order
RECURSIVE Fragments(_, _, _)
Fragments(rs, ob, eb) ==
    IF rs = <<>> THEN <<>>
    ELSE LET r == Head(rs)
             d == decode(IF r.ch = "stdout" THEN ob ELSE eb, r.bytes)
         IN  IF r.bytes = <<>> THEN Fragments(Tail(rs), ob, eb)
             ELSE <<[ch |-> r.ch, text |-> d.text]>>
                  \o Fragments(Tail(rs),
                               IF r.ch = "stdout" THEN d.rest ELSE ob,
                               IF r.ch = "stdout" THEN eb ELSE d.rest)

\* the last read, the buffer of the decoder of its channel before it, and the
\* fragment that decoder returns for it
LastRead == reads'[Len(reads')]
BufferBefore == IF LastRead.ch = "stdout" THEN out_decoder ELSE err_decoder
LastFragment == decode(BufferBefore, LastRead.bytes).text

\* C9: the callback is invoked exactly once for each non-empty decoded fragment,
\* in the order the fragments were read, never for an empty one, and the
\* accumulated output is the concatenation of the fragments passed so far.
C9_CallbackPerNonEmptyFragment ==
    /\ [](\A i \in 1..Len(cb_log) : cb_log[i].text # <<>>)
    /\ [](full_output = Concat([i \in 1..Len(cb_log) |-> cb_log[i].text]))
    /\ [][IF reads' # reads /\ LastRead.bytes # <<>> /\ LastFragment # <<>>
          THEN cb_log' = Append(cb_log, [ch |-> LastRead.ch, text |-> LastFragment])
          ELSE cb_log' = cb_log]_vars

\* fragments of both channels were passed on, and one read decoded to nothing
C9_Witness ==
    /\ \E i, j \in 1..Len(cb_log) : cb_log[i].ch = "stdout" /\ cb_log[j].ch = "stderr"
    /\ \E f \in {Fragments(reads, <<>>, <<>>)} : \E i \in 1..Len(f) : f[i].text = <<>>

\* C10, as claimed: once a channel has reached end of stream, all the bytes read
\* from it have been emitted, the incomplete tail its decoder buffered lossily.
C10_BufferedTailEmittedAtEof ==
    \A ch \in {"stdout", "stderr"} :
        EofSeen(ch) => ChannelText(ch) = from_utf8_lossy(ChannelBytes(ch))

\* ------------------------------------------------- properties: faults and timeouts

\* C11: a failure to spawn the process and a panic of the blocking task each
\* yield a returned result with success=false, empty output and an error text
\* describing the fault; execute_command returns a result in both cases.
C11_FaultsBecomeFailureResults ==
    (e_pc = "returned" /\ ~TimedOut(proc, timeout_duration)) =>
        /\ proc.fate = "spawn_err" =>
              e_result = [success |-> FALSE, output |-> <<>>,
                          error |-> Some(<<"Failed to execute command: ", "io error">>)]
        /\ proc.fate = "panic" =>
              e_result = [success |-> FALSE, output |-> <<>>,
                          error |-> Some(<<"Command execution panicked: ", "join error">>)]

\* the call has returned after the blocking task panicked
C11_Witness ==
    /\ e_pc = "returned" /\ proc.fate = "panic"
    /\ e_result.success = FALSE /\ e_result.error # None

\* the process had not ended when the timeout of the call elapsed
Overran == proc.fate = "hang" \/ proc.secs > timeout_duration

\* C12: execute_command returns no later than its class timeout after the call;
\* when the process has not ended by then the result is success=false with empty
\* output and an error naming the timeout, and the process is left running at the
\* return of the call.
C12_ReturnsWithinTimeout ==
    /\ [](e_pc = "returned" =>
            /\ timeout_duration \in {15, 600}
            /\ e_elapsed <= timeout_duration
            /\ Overran =>
                  /\ e_result.success = FALSE /\ e_result.output = <<>>
                  /\ e_result.error # None
                  /\ SubSeq(e_result.error[1], 1, 3) =
                        <<"WSL command timed out after ", ToString(timeout_duration), "s: ">>)
    /\ [][(e_pc = "call" /\ e_pc' = "returned" /\ Overran'
            /\ proc.fate \in {"exit0", "exitN", "hang"}) => proc_running']_vars

\* a call that timed out on a process that never exits, which is still running
C12_Witness ==
    /\ e_pc = "returned" /\ proc.fate = "hang" /\ proc_running
    /\ e_elapsed = timeout_duration /\ ~e_result.success

\* C13, as claimed: every result with success=false returned by execute_command
\* carries a non-empty error text, whatever the failure path.
C13_FailureCarriesNonEmptyError ==
    (e_pc = "returned" /\ ~e_result.success) =>
        /\ e_result.error # None
        /\ e_result.error[1] # <<>>

\* C14: execute_command_streaming returns success=true if and only if the exit
\* status of the child is zero, success=false on a non-zero status or a failed
\* wait, and in all three cases the output is the text accumulated from both
\* channels.
C14_StreamingClassification ==
    (s_pc = "returned" /\ child.spawn_ok) =>
        /\ status # None
        /\ exit_status # None => status = exit_status
        /\ s_result.success <=> status = Some("0")
        /\ s_result.output = Concat([i \in 1..Len(cb_log) |-> cb_log[i].text])

\* a child that wrote to both channels and exited with a non-zero status
C14_Witness ==
    /\ s_pc = "returned" /\ status = Some("1") /\ ~s_result.success
    /\ \E i, j \in 1..Len(cb_log) : cb_log[i].ch = "stdout" /\ cb_log[j].ch = "stderr"
    /\ s_result.output # <<>>

\* ------------------------------------------------- properties: start, stop, delete

Last(q) == q[Len(q)]

\* the detached tasks spawned in this step, and those that ended in it
SpawnedTasks == {t \in tasks' : ~\E u \in tasks :
                    u.owner = t.owner /\ u.fn = t.fn /\ u.call = t.call}
EndedTasks == {t \in tasks : ~\E u \in tasks' :
                    u.owner = t.owner /\ u.fn = t.fn /\ u.call = t.call}

\* in this step caller p returns from the function f of ops.rs
ReturnsFrom(p, f) == caller[p].fn = f /\ caller'[p].fn = "none"

\* the increments made on behalf of p whose decrement is still to come
Pending(p) ==
    Cardinality({t \in tasks : t.owner = p})
    + (IF caller[p].pc \in {"idle", "lock", "call", "sleep"} THEN 0 ELSE 1)

\* C15: when start_distro or stop_distro returns after a successful command, one
\* refresh has been made and the re-check is spawned with the counter still
\* incremented; the re-check starts its own refresh no earlier than 3 seconds
\* later and the decrement is made when it ends. When the command failed the
\* counter is decremented at the return, with no refresh and no re-check.
C15_RefreshThenDelayedRecheck ==
    /\ [](\A t \in tasks :
            (t.fn \in {"start_distro", "stop_distro"} /\ t.pc = "refresh") => t.age >= 3)
    /\ [](\A p \in Callers : net[p] = Pending(p))
    /\ [][\A p \in Callers : \A f \in {"start_distro", "stop_distro"} :
            ReturnsFrom(p, f) =>
              IF Last(caller'[p].completed).success
              THEN /\ caller[p].refreshes = 1
                   /\ \E t \in SpawnedTasks :
                         /\ t.owner = p /\ t.fn = f /\ t.pc = "sleep" /\ t.age = 0
                         /\ SpawnedTasks = {t}
                   /\ manual_operations' = manual_operations
              ELSE /\ caller'[p].refreshes = 0
                   /\ SpawnedTasks = {}
                   /\ manual_operations' = manual_operations - 1]_vars
    /\ [][\A t \in EndedTasks :
            /\ t.pc = "refresh"
            /\ manual_operations' = manual_operations - 1]_vars

\* stop_distro has returned with success a second ago: its re-check is asleep and
\* the counter is still incremented
C15_Witness ==
    \E p \in Callers : \E t \in tasks :
        /\ caller[p].pc = "idle" /\ caller[p].ret = Some(Res(TRUE, "terminate"))
        /\ caller[p].refreshes = 1
        /\ t.owner = p /\ t.fn = "stop_distro" /\ t.pc = "sleep" /\ t.age = 1
        /\ manual_operations = 1

\* the keep-alive tasks handed to spawn_blocking in this step
SpawnedKeepAlive == {b \in bg' \ bg : b.kind = "keep_alive"}

\* in this step the probe command of caller p ends
ProbeEnds(p) ==
    /\ caller[p].fn = "start_distro" /\ caller[p].pc = "await"
    /\ caller'[p].pc # "await"

\* C16: the keep-alive task is spawned when the probe has succeeded and at no
\* other time; start then returns success with the task still to run, and the
\* outcome of the task changes nothing for the caller; a failed probe is returned
\* as it is.
C16_KeepAliveAfterProbe ==
    /\ [][\A p \in Callers :
            ProbeEnds(p) =>
              IF Last(caller'[p].completed).success
              THEN /\ SpawnedKeepAlive = {[owner |-> p, call |-> caller[p].calls,
                                           kind |-> "keep_alive", pfn |-> <<>>,
                                           pc |-> "queued"]}
                   /\ caller'[p].result = Res(TRUE, "start_distro")
              ELSE /\ SpawnedKeepAlive = {}
                   /\ caller'[p].ret = Some(Res(FALSE, "probe"))]_vars
    /\ [][SpawnedKeepAlive # {} => \E p \in Callers : ProbeEnds(p)]_vars
    /\ [][(\E b \in bg \ bg' : b.kind = "keep_alive") => caller' = caller]_vars

\* start_distro has returned success and its keep-alive task has not run yet
C16_Witness ==
    \E p \in Callers : \E b \in bg :
        /\ b.owner = p /\ b.kind = "keep_alive" /\ b.pc = "queued"
        /\ b.call = caller[p].calls
        /\ caller[p].pc = "idle" /\ caller[p].ret = Some(Res(TRUE, "start_distro"))

\* the launcher removal tasks spawned by a step
SpawnedRemovals == {b \in bg' \ bg : b.kind = "appx_removal" /\ b.pc = "queued"}

\* the --unregister of caller p's delete_distro completes in this step
UnregisterEnds(p) ==
    /\ caller[p].fn = "delete_distro"
    /\ caller[p].pc = "await" /\ caller'[p].pc # "await"

\* the environments of registry reg that use launcher package pfn
UsersOf(reg, pfn) == {e \in reg : e.pfn = pfn}

\* the lookup lk names pfn as the package of the deleted environment, and that
\* environment as its only user
SoleUser(lk, pfn) ==
    /\ lk.kind = "output"
    /\ pfn # ""
    /\ [name |-> DeletedDistro, pfn |-> pfn] \in lk.reg
    /\ Cardinality(UsersOf(lk.reg, pfn)) = 1

\* C17: delete_distro spawns the launcher removal exactly when the lookup made
\* before --unregister returned a non-empty package id whose only user is the
\* deleted environment and --unregister then succeeded; the task targets that
\* package id. When another environment shares the package, or the lookup failed,
\* timed out or was unparsable, no removal is spawned; nothing else spawns one.
C17_RemovalIffSoleUserAndUnregistered ==
    /\ [][\A p \in Callers : UnregisterEnds(p) =>
            LET lk == caller[p].lookup
                flagged == {pfn \in {"pkgA", "pkgB"} : SoleUser(lk, pfn)}
            IN  IF Last(caller'[p].completed).success
                THEN SpawnedRemovals =
                       {[owner |-> p, call |-> caller[p].calls,
                         kind |-> "appx_removal", pfn |-> pfn, pc |-> "queued"] :
                        pfn \in flagged}
                ELSE SpawnedRemovals = {}]_vars
    /\ [][SpawnedRemovals # {} => \E p \in Callers : UnregisterEnds(p)]_vars

\* the lookup found the deleted environment to be the only user of its package,
\* --unregister has succeeded and the removal of that package has just been spawned
C17_Witness ==
    \E p \in Callers :
        /\ caller[p].fn = "delete_distro" /\ caller[p].pc = "refresh"
        /\ caller[p].pfn_to_remove = Some("pkgA")
        /\ [owner |-> p, call |-> caller[p].calls, kind |-> "appx_removal",
            pfn |-> "pkgA", pc |-> "queued"] \in bg

\* C18: when --unregister fails, delete_distro returns that failure at once: the
\* step that ends the command returns the failed result, spawns no launcher
\* removal, calls no refresh, spawns no detached re-check, and makes the decrement
\* of the busy counter.
C18_UnregisterFailureReturnsAtOnce ==
    [][\A p \in Callers :
         (UnregisterEnds(p) /\ ~Last(caller'[p].completed).success) =>
            /\ caller'[p].pc = "idle"
            /\ caller'[p].ret = Some(Res(FALSE, "unregister"))
            /\ bg' = bg
            /\ caller'[p].refreshes = 0
            /\ tasks' = tasks
            /\ manual_operations' = manual_operations - 1
            /\ net'[p] = net[p] - 1]_vars

\* a delete_distro has returned the failure of --unregister while the re-check of
\* an earlier verb is still pending
C18_Witness ==
    \E p \in Callers :
        /\ caller[p].pc = "idle"
        /\ caller[p].ret = Some(Res(FALSE, "unregister"))
        /\ caller[p].refreshes = 0
        /\ ~\E t \in tasks : t.owner = p /\ t.call = caller[p].calls
        /\ manual_operations = Cardinality(tasks) /\ tasks # {}

\* C19: the success flag of the result of delete_distro is that of --unregister
\* alone. Whatever the lookup, the removal of the configuration entry and the
\* removal of the autostart line come to, --unregister is issued; delete_distro
\* returns having issued --unregister and nothing else, with the success of that
\* command; the launcher removal task changes nothing of the caller, its result
\* included.
C19_SuccessIsUnregisterAlone ==
    /\ [][\A p \in Callers :
            (/\ caller[p].fn = "delete_distro" /\ caller[p].pc = "lock"
             /\ caller'[p] # caller[p]) =>
                /\ caller'[p].pc = "await"
                /\ caller'[p].issued = <<"unregister">>]_vars
    /\ [][\A p \in Callers : ReturnsFrom(p, "delete_distro") =>
            /\ caller'[p].issued = <<"unregister">>
            /\ Len(caller'[p].completed) = 1
            /\ caller'[p].completed[1].cmd = "unregister"
            /\ caller'[p].ret # None
            /\ caller'[p].ret[1].success = caller'[p].completed[1].success]_vars
    /\ [][(\E b \in bg : b.kind = "appx_removal" /\ b \notin bg') =>
            caller' = caller]_vars

\* --unregister has succeeded and delete_distro holds a successful result although
\* the lookup and both removals failed
C19_Witness ==
    \E p \in Callers :
        /\ caller[p].fn = "delete_distro" /\ caller[p].pc = "refresh"
        /\ caller[p].all_failed
        /\ caller[p].pfn_to_remove = None
        /\ caller[p].result.success
        /\ caller[p].completed = <<[cmd |-> "unregister", success |-> TRUE]>>

\* after a successful --unregister: delete_distro returns after one refresh, having
\* spawned one detached task and left the counter incremented; that task starts
\* its refresh no earlier than 1 second later, and the decrement is made when the
\* refresh is done or timed out
SettleOrder ==
    /\ [](\A t \in tasks : (t.fn = "delete_distro" /\ t.pc = "refresh") =>
            t.age >= 1)
    /\ [][\A p \in Callers :
            (ReturnsFrom(p, "delete_distro") /\ Last(caller'[p].completed).success) =>
               /\ caller[p].refreshes = 1
               /\ \E t \in SpawnedTasks :
                     /\ t.owner = p /\ t.fn = "delete_distro"
                     /\ t.pc = "sleep" /\ t.age = 0
                     /\ SpawnedTasks = {t}
               /\ manual_operations' = manual_operations]_vars
    /\ [][\A t \in EndedTasks : t.fn = "delete_distro" =>
            (t.pc = "refresh" /\ manual_operations' = manual_operations - 1)]_vars

\* the delete_distro that spawned the launcher removal b has returned and its
\* detached task has ended
RecheckFinished(b) ==
    /\ ~(caller[b.owner].fn = "delete_distro" /\ caller[b.owner].calls = b.call)
    /\ ~\E t \in tasks : t.owner = b.owner /\ t.call = b.call

\* C20 as stated: after a successful --unregister come the synchronous refresh,
\* then in one detached task a wait of 1 second, then a refresh under a timeout,
\* and only then the attempt to remove a flagged launcher package: the removal
\* never starts before the wait and the second refresh have finished.
C20_RemovalAfterRecheck ==
    /\ SettleOrder
    /\ [][\A b \in bg : (b.kind = "appx_removal" /\ b \notin bg') =>
            RecheckFinished(b)]_vars

\* C20, amended: the synchronous refresh, the wait of 1 second in one detached
\* task, the refresh under a timeout and the decrement come in this order; the
\* removal of a flagged launcher package is spawned as a task of its own by the
\* step that ends the successful --unregister, when the synchronous refresh is
\* yet to be made and the detached task is yet to be spawned, and nothing orders
\* it after them.
C20_RemovalSpawnedAtUnregister ==
    /\ SettleOrder
    /\ [][\A p \in Callers :
            (UnregisterEnds(p) /\ Last(caller'[p].completed).success) =>
               /\ caller'[p].pc = "refresh"
               /\ tasks' = tasks
               /\ \A b \in AppxRemovalTasks(p) : b \in bg' /\ b \notin bg]_vars
    /\ [][SpawnedRemovals # {} => \E p \in Callers :
            /\ caller'[p].fn = "delete_distro" /\ caller'[p].pc = "refresh"
            /\ \A b \in SpawnedRemovals : b.owner = p /\ b.call = caller'[p].calls]_vars

\* the launcher removal is free to run while the synchronous refresh of the same
\* delete_distro is still to finish
C20_Witness ==
    \E b \in bg :
        /\ b.kind = "appx_removal" /\ b.pc = "queued"
        /\ caller[b.owner].fn = "delete_distro" /\ caller[b.owner].pc = "refresh"
        /\ caller[b.owner].calls = b.call

\* ------------------------------------------------- properties: the gate and the verbs

\* caller p, in its call number n, is in delete_distro and holds heavy_op_lock
HoldsGateInDelete(p, n) ==
    /\ heavy_op_lock = p
    /\ caller[p].fn = "delete_distro" /\ caller[p].calls = n

\* C21: delete_distro holds heavy_op_lock for the whole operation: from before the
\* lookup until all of its steps are over, the detached wait and second refresh
\* and the launcher removal included; while one of those steps is still to finish
\* the lock is held by that delete_distro and by no other heavy verb.
C21_GateHeldUntilDetachedStepsEnd ==
    /\ \A p \in Callers :
         (caller[p].fn = "delete_distro" /\ caller[p].pc \in {"await", "refresh"}) =>
            heavy_op_lock = p
    /\ \A t \in tasks : t.fn = "delete_distro" => HoldsGateInDelete(t.owner, t.call)
    /\ \A b \in bg : b.kind = "appx_removal" => HoldsGateInDelete(b.owner, b.call)

\* the verbs that refresh the list only when their command succeeded and that
\* spawn no detached task
RefreshOnSuccessVerbs == {"shutdown_wsl", "import_distro", "move_distro"}

\* caller p has returned from verb f with success ok
HasReturned(p, f, ok) ==
    /\ caller[p].pc = "idle" /\ caller[p].verb = f
    /\ caller[p].ret # None /\ caller[p].ret[1].success = ok

\* C22: shutdown_wsl, import_distro and move_distro have called refresh_distros
\* exactly once when they return after a command that succeeded and not at all
\* when it failed; export_distro never calls it, whatever the outcome.
C22_RefreshPolicyPerVerb ==
    \A p \in Callers :
      /\ caller[p].verb = "export_distro" => caller[p].refreshes = 0
      /\ caller[p].verb \in RefreshOnSuccessVerbs =>
           /\ caller[p].refreshes <= 1
           /\ caller[p].pc \in {"lock", "call", "await"} => caller[p].refreshes = 0
           /\ caller[p].pc = "refresh" => caller[p].refreshes = 1
           /\ \A ok \in BOOLEAN :
                HasReturned(p, caller[p].verb, ok) =>
                   caller[p].refreshes = (IF ok THEN 1 ELSE 0)

\* one caller is back from a failed import or move with no refresh made, another
\* from a successful export with none made either
C22_Witness ==
    \E p, q \in Callers :
      /\ \E f \in {"import_distro", "move_distro"} : HasReturned(p, f, FALSE)
      /\ caller[p].refreshes = 0
      /\ HasReturned(q, "export_distro", TRUE) /\ caller[q].refreshes = 0

\* a caller is back from a successful shutdown, import or move with one refresh
C22_WitnessSuccess ==
    \E p \in Callers : \E f \in RefreshOnSuccessVerbs :
      HasReturned(p, f, TRUE) /\ caller[p].refreshes = 1

\* a step of start_distro, stop_distro or shutdown_wsl by caller p (restart_distro
\* runs stop_distro, then start_distro)
GateFreeVerbStep(p) == StartDistro(p) \/ StopDistro(p) \/ ShutdownWsl(p)

\* C23: start_distro, stop_distro, restart_distro and shutdown_wsl never wait on
\* heavy_op_lock: a caller about to issue the command of one of them can issue it
\* whoever holds the lock, the steps of its stop and start in restart_distro
\* included, and the step leaves the lock as it is.
C23_GateFreeVerbsNeverWait ==
    \A p \in Callers :
      (caller[p].pc = "call" /\ caller[p].fn \in LightVerbs) =>
         ENABLED (GateFreeVerbStep(p) /\ caller'[p].pc = "await"
                  /\ Len(caller'[p].issued) = Len(caller[p].issued) + 1
                  /\ heavy_op_lock' = heavy_op_lock)

\* a delete_distro holds the lock and awaits --unregister while another caller is
\* about to issue the command of stop_distro; the verbs of ops.rs use their name
\* argument only as an argument of the command, so every verb of the model is
\* taken to name DeletedDistro
C23_Witness ==
    \E p, q \in Callers :
      /\ heavy_op_lock = q /\ caller[q].fn = "delete_distro" /\ caller[q].pc = "await"
      /\ caller[p].fn = "stop_distro" /\ caller[p].pc = "call"

\* a heavy verb holds the lock while the command of a start, stop or shutdown that
\* was issued is awaited
C23_WitnessIssued ==
    \E p, q \in Callers :
      /\ heavy_op_lock = q /\ InHeavy(q)
      /\ caller[p].fn \in LightVerbs /\ caller[p].pc = "await"

\* the detached tasks of caller p that have their decrement still to make
OwnTasks(p) == {t \in tasks : t.owner = p}

\* the verb in progress of caller p has made its increment and not yet the decrement
\* that answers it: p's increments less p's decrements exceed by one the detached
\* tasks p's earlier verbs left
HasIncremented(p) == net[p] = Cardinality(OwnTasks(p)) + 1

\* C24: in every verb the increment of manual_operations comes first, then (heavy
\* verbs) the acquisition of heavy_op_lock, then the command, its outcome, the
\* detached task if any, and last the decrement; so a heavy verb that still waits
\* for the lock has made its increment already, and so has every verb whose
\* command is issued.
C24_IncrementThenGateThenCommand ==
    \A p \in Callers :
      /\ (caller[p].pc = "lock" /\ heavy_op_lock \notin {0, p}) => HasIncremented(p)
      /\ caller[p].pc \in {"await", "refresh"} => HasIncremented(p)
      /\ InHeavy(p) => heavy_op_lock = p

\* ------------------------------------------------- properties: the state listener

\* C25: the listener calls refresh_distros_ui exactly once for each return of
\* notified().await, however many notify_one calls went into that wake-up, and
\* each call starts at least MIN_REFRESH_INTERVAL after the previous call returned
\* (after the listener started, for the first).
C25_OncePerWakeupAndSpaced ==
    /\ [](invocations = IF l_pc = "sleep" THEN wakeups - 1 ELSE wakeups)
    /\ [][invocations' # invocations =>
             /\ invocations' = invocations + 1
             /\ since_completed >= MIN_REFRESH_INTERVAL]_vars

\* three notify_one calls made two wake-ups and the second call of the callback
\* is running, none stored: two of the calls went into one wake-up
C25_Witness ==
    /\ l_pc = "refresh" /\ notifications = 3 /\ wakeups = 2 /\ invocations = 2
    /\ ~permit

\* the wake-ups the listener is yet to make with no further notify_one call
WakeupsOwed == (IF permit THEN 1 ELSE 0) + (IF l_pc = "woken" THEN 1 ELSE 0)

\* C26: the notify_one calls made while the listener is not waiting in notified()
\* (it sleeps out the interval, runs refresh_distros_ui or is on its way back to
\* notified()) are not lost and are merged: a wake-up is stored as long as one of
\* them is not taken, however many they are they make one wake-up, and a call of
\* refresh_distros_ui starts after the last of them.
C26_MissedNotificationsCoalesce ==
    /\ [](missed > 0 => permit)
    /\ [](missed > 0 => wakeups + WakeupsOwed + (missed - 1) <= notifications)
    /\ [](wakeups + WakeupsOwed <= notifications)
    /\ [][(missed > 0 /\ l_pc' # l_pc /\ l_pc = "lock") =>
             (l_pc' = "woken" /\ ~permit' /\ missed' = 0)]_vars
    /\ (unserved ~> ~unserved)

\* two notify_one calls were made during the sleep or the callback that followed
\* the first wake-up; the callback is running and one wake-up is stored
C26_Witness ==
    l_pc = "refresh" /\ wakeups = 1 /\ notifications = 3 /\ missed = 2 /\ permit

\* those two calls have made one wake-up, and the listener has gone back to wait
C26_WitnessParked ==
    l_pc = "notified" /\ wakeups = 2 /\ invocations = 2 /\ notifications = 3 /\ ~permit

\* ------------------------------------------------- properties: the lock is released

\* C27: delete_distro, export_distro, import_distro and move_distro release
\* heavy_op_lock on every return, after a success or a failure, so a heavy verb
\* that waits for the lock gets it in the end, given that the commands return
\* and that the waiters are served fairly.
C27_GateReleasedAndAcquired ==
    /\ [][\A p \in Callers : \A f \in HeavyVerbs :
            ReturnsFrom(p, f) => (heavy_op_lock = p /\ heavy_op_lock' = 0)]_vars
    /\ \A p \in Callers : (caller[p].pc = "lock") ~> (heavy_op_lock = p)

\* a heavy verb has returned a failure, the lock is held by the other caller's
\* heavy verb, which was called first and waited
C27_Witness ==
    \E p, q \in Callers :
      /\ p # q
      /\ \E f \in HeavyVerbs : HasReturned(p, f, FALSE)
      /\ heavy_op_lock = q /\ InHeavy(q)
      /\ caller[q].calls = 1 /\ caller[p].calls = 1 /\ q < p

\* ------------------------------------------------- properties: restart_distro

\* caller p is in restart_distro after a stop that succeeded and nothing else
\* runs: the other callers are idle with no detached task left, and p's detached
\* tasks are those of this restart_distro
RestartsAlone(p) ==
    /\ caller[p].verb = "restart_distro"
    /\ \/ caller[p].restart = "sleep"
       \/ caller[p].restart \in {"stop", "start"} /\ caller[p].pc \in {"await", "refresh"}
    /\ \A q \in Callers \ {p} : Quiet(q)
    /\ \A t \in tasks : t.owner = p /\ t.call = caller[p].calls

\* C28: while restart_distro runs, its stop having succeeded and no other verb
\* running, manual_operations is above zero at every moment from the call to the
\* return, the 4 seconds of sleep between stop_distro and start_distro included.
C28_BusyThroughoutRestart ==
    \A p \in Callers : RestartsAlone(p) => manual_operations > 0

\* ------------------------------------------------- properties: the commands' class

\* C29: each command issued for a verb that changes the state of WSL, --terminate
\* (stop), --shutdown, --unregister (delete) and --manage --move (move), is a
\* write operation for execute_command and runs under the timeout of 600
\* seconds, never under that of 15.
C29_MutatingCommandsAreWriteClass ==
    (args \in MutatingCommands /\ e_pc = "returned") =>
       (is_write_op /\ timeout_duration = WriteTimeoutSecs)

\* what does hold: the commands of stop, shutdown and delete are write operations
C29_TerminateShutdownUnregisterAreWriteClass ==
    (args \in MutatingCommands /\ e_pc = "returned"
       /\ args \notin {move_distro_command(n, d) : n \in DistroNames, d \in NewPaths}) =>
       (is_write_op /\ timeout_duration = WriteTimeoutSecs)

\* ------------------------------------------------- properties: external processes

\* the wsl.exe processes started for the command of a heavy verb that are running:
\* those of the commands awaited and those left behind by a timeout
HeavyProcesses ==
    {[owner |-> p, call |-> caller[p].calls] :
        p \in {q \in Callers : caller[q].fn \in HeavyVerbs /\ caller[q].pc = "await"}}
    \cup {[owner |-> b.owner, call |-> b.call] : b \in {x \in bg : x.kind = "wsl_process"}}

\* C30: at any time at most one external process started for a heavy verb
\* (--unregister, --export, --import, --manage --move) is running, also after the
\* command of a heavy verb timed out, the verb returned the failure and released
\* the lock, and a second heavy verb started.
C30_OneHeavyProcessAtATime == Cardinality(HeavyProcesses) <= 1

\* ------------------------------------------------- properties: refresh_distros_ui

\* the calls of refresh_distros_ui that are executing the body
InBody == {r \in UiCallers : ui_call[r].pc # "idle"}

\* a call of refresh_distros_ui arrives
Arrives(r) == ListenerCalls(r) \/ DirectCall(r)

\* C31: at most one body of refresh_distros_ui executes at a time and
\* IS_REFRESHING is true exactly while one does, so it is false whenever no
\* refresh is executing (every exit path resets it); a call that arrives while
\* another is in progress returns at once, without reading the cache or touching
\* the UI.
C31_OneBodyAtATime ==
    /\ [](Cardinality(InBody) <= 1 /\ (IS_REFRESHING <=> InBody # {}))
    /\ [][\A r \in UiCallers : (IS_REFRESHING /\ Arrives(r)) =>
            UNCHANGED <<ui_call, IS_REFRESHING, IS_UI_UPDATING, LAST_DISTROS, event_loop,
                        shown, icon_tasks>>]_vars

\* the listener is in the body and has not read the cache yet, and a direct call
\* has arrived meanwhile and returned at once: no call has read the cache so far
C31_Witness ==
    /\ ui_call[Listener].pc = "locked" /\ IS_REFRESHING
    /\ direct_calls > 0 /\ InBody = {Listener}
    /\ shown = None /\ event_loop = None /\ ~IS_UI_UPDATING

\* C32: every call of refresh_distros_ui that sets IS_UI_UPDATING is followed by
\* the flag being reset, on every path, also when handing the closure to the
\* event loop fails: the flag never stays set, so later refreshes are not skipped
\* for ever.
C32_UiUpdatingEventuallyReset == IS_UI_UPDATING ~> ~IS_UI_UPDATING

\* the model shown by the UI is that of the cached list
ShowsCachedList ==
    /\ shown # None
    /\ Len(shown[1]) = Len(distros)
    /\ \A i \in 1..Len(distros) :
         WslDistro(shown[1][i].name, shown[1][i].status, shown[1][i].version,
                   shown[1][i].is_default) = SortByName(distros)[i]

\* C33: once the cached list has changed for the last time and the change signal
\* has been raised, the model shown by the UI eventually equals the cached list
\* and stays so, also when refresh_distros_ui is called directly by other tasks
\* and some calls are skipped by the IS_REFRESHING and IS_UI_UPDATING guards.
C33_ShownEventuallyCached == (Len(distros) = MaxChanges + 1) ~> []ShowsCachedList

\* the background icon checks whose command on the environment is running
Probing == {t \in icon_tasks : t.pc = "probing"}

\* C34: no environment is probed for its icon by two background tasks at the
\* same time: the mark set by a task keeps the refreshes that follow from
\* spawning a second probe of the environment while the first is running.
C34_NoConcurrentProbe == Cardinality(Probing) <= 1

\* the model differs from the remembered one in length or, at some index, in one
\* of the seven fields; with nothing remembered it counts as different
Differs(last, model) ==
    \/ last = None
    \/ /\ last # None
       /\ \/ Len(last[1]) # Len(model)
          \/ /\ Len(last[1]) = Len(model)
             /\ \E i \in 1..Len(model) :
                  \E f \in {"name", "status", "version", "is_default", "has_icon",
                            "initial", "distro_display_name"} : last[1][i][f] # model[i][f]

\* the entries of the cached list a model was computed from
CacheOf(model) ==
    [i \in 1..Len(model) |->
        WslDistro(model[i].name, model[i].status, model[i].version, model[i].is_default)]

\* the closure calls set_distros exactly when the model differs, and the model
\* shown is replaced by such a call only
SetDistrosIffDiffers ==
    RunClosure =>
       /\ last_run'[1].set <=> Differs(LAST_DISTROS, event_loop[1])
       /\ last_run'[1].set => shown' = event_loop
       /\ ~last_run'[1].set => shown' = shown

C36_ReturnsIffChildExited ==
    /\ (child.exited ~> s_pc = "returned")
    /\ []((s_pc = "returned" /\ child.spawn_ok) => child.exited)
    /\ []((stdout_done /\ stderr_done /\ ~child.exited) => s_pc # "returned")

\* the call has returned after the exit of a child whose stdout never reached
\* end-of-stream, a descendant holding the pipe open
C36_Witness ==
    /\ s_pc = "returned" /\ child.exited /\ "stdout" \in child.holds
    /\ ~stdout_done /\ ~EofSeen("stdout") /\ exit_status # None

\* both channels have reached end-of-stream, the child has not exited, and the
\* call is waiting for it
C36_WitnessWaiting ==
    /\ s_pc = "after_loop" /\ EofSeen("stdout") /\ EofSeen("stderr")
    /\ ~child.exited /\ exit_status = None

\* ------------------------------------------------- properties: persisted configuration

\* the file has the autostart line of the environment
HasAutostartLine(vbs, distro_name) ==
    vbs # None /\ \E i \in 1..Len(vbs[1]) : vbs[1][i] = line_to_manage(distro_name)

\* C37: when --unregister fails, delete_distro returns with the configuration
\* entry of the environment and its autostart line as delete_distro found them: a
\* failed delete changes no persisted state of the environment.
C37_FailedDeleteChangesNothingPersisted ==
    [][\A p \in Callers :
         (ReturnsFrom(p, "delete_distro") /\ ~caller'[p].ret[1].success) =>
            /\ (DeletedDistro \in instances_toml') =
                  (DeletedDistro \in caller[p].before[1].toml)
            /\ HasAutostartLine(autostart_vbs', DeletedDistro) =
                  HasAutostartLine(caller[p].before[1].vbs, DeletedDistro)]_vars

\* ------------------------------------------------- properties: wsl.conf

\* the section each line of a file stands in ("" before the first header)
RECURSIVE SectionsFrom(_, _)
SectionsFrom(content, section) ==
    IF content = <<>> THEN <<>>
    ELSE LET line == Head(content)
             here == IF Len(line) = 1 /\ line[1] \in {"[boot]", "[network]", "[interop]",
                                                       "[automount]"}
                     THEN line[1] ELSE section
         IN  <<here>> \o SectionsFrom(Tail(content), here)

\* what a file specifies for the key of a section: the value of the last line of
\* the section that sets the key, the default when there is none
Specified(content, section, key, default) ==
    LET secs == SectionsFrom(content, "")
        at == {i \in 1..Len(content) :
                 Len(content[i]) = 2 /\ content[i][1] = key /\ secs[i] = section}
    IN  IF at = {} THEN default
        ELSE content[CHOOSE i \in at : \A j \in at : j <= i][2] = "true"

\* the four settings other than systemd, as a file specifies them
OtherSettings(content) ==
    [generateHosts |-> Specified(content, "[network]", "generateHosts", TRUE),
     generateResolvConf |-> Specified(content, "[network]", "generateResolvConf", TRUE),
     enabled |-> Specified(content, "[interop]", "enabled", TRUE),
     appendWindowsPath |-> Specified(content, "[interop]", "appendWindowsPath", TRUE)]

\* C38: set_systemd_status changes only the systemd setting: whatever the file
\* held, the values of generateHosts, generateResolvConf, [interop] enabled and
\* appendWindowsPath it writes are those the file specified before (the defaults
\* when absent), also with an enabled key in another section and when reading the
\* file failed.
C38_OnlySystemdChanges ==
    [][(SetWslConf /\ w_call'.pc = "written") =>
          OtherSettings(wsl_conf') = OtherSettings(wsl_conf)]_vars

====
